---- MODULE Spec2Model ----
(***************************************************************************)
(* Model of the signal store (tracker/signal_logger.py), the lifecycle     *)
(* tracker (tracker/signal_tracker.py), the position sizer                 *)
(* (strategy/position_sizing.py), the signal classifier and scorer         *)
(* (strategy/signals.py) and the opportunity fill of the scanner           *)
(* (scanner/market_scanner.py) of the metatrader5-strategy repository.     *)
(*                                                                         *)
(* Prices are integers counted in thirds of a cent, so that round(x, 2)    *)
(* is a real conversion: Round2 maps a price to the nearest whole cent     *)
(* (a multiple of Quantum).  Time is counted in whole days.                *)
(***************************************************************************)
EXTENDS Integers, Sequences, FiniteSets, TLC

VARIABLES
    active,     \* content of active_signals.json: sequence of tracked records
    history,    \* content of signal_history.json
    clock,      \* datetime.now(timezone.utc), in days
    nextId,     \* stands for the fresh uuid4 prefix handed out by log_signal
    fetch_ok,   \* latest tracker run: ticker -> "ok", "failed" or "skipped"
    polled,     \* signal id -> windows read by the polls of the signal, in order
    result,     \* value returned by the latest call of this process
    sizing,     \* latest call into the position sizer: arguments and outcome
    active_file \* state of active_signals.json on disk: "ok" when it parses
                \* to the records of active, else how it is damaged

vars == <<active, history, clock, nextId, fetch_ok, polled, result, sizing,
          active_file>>

----------------------------------------------------------------------------
(* Bounds *)
MaxSignals == 2      \* records ever logged
MaxClock   == 2      \* days the model runs for
MaxPolls   == 2      \* polls of all signals together
LivePolls  == 1      \* polls before the end of the modelled time, live runs

(* Program constants *)
SIGNAL_EXPIRY_DAYS == 7
Quantum == 3         \* price units per cent: round(x, 2) keeps multiples of it

----------------------------------------------------------------------------
(* Values *)
None == <<>>
Some(v) == <<v>>

Tickers == {"GC=F", "RELIANCE.NS"}

\* bars <<Low, Close, High>> a provider may report.  The levels of
\* SignalInputs are 0, 3, 6, 9 and 12; 4 and 8 are not whole cents.
QuoteSet ==
    { <<4, 4, 4>>,      \* quiet bar below the entry
      <<4, 8, 8>>,      \* quiet bar across the entry
      <<3, 4, 4>>,      \* touches 3 exactly
      <<4, 8, 9>>,      \* touches 9 exactly
      <<3, 4, 9>>,      \* touches 3 and 9 in the same bar
      <<0, 3, 4>>,      \* falls to 0
      <<4, 9, 12>>,     \* rises to 12
      <<0, 4, 12>> }    \* crosses every level

\* signals handed to log_signal: levels already rounded by the pipeline
SignalInputs ==
    { [ticker |-> tk, direction |-> "BUY",  entry |-> 6, stop_loss |-> 3,
       tp1 |-> 9, tp2 |-> 12] : tk \in Tickers }
    \cup
    { [ticker |-> tk, direction |-> "SELL", entry |-> 6, stop_loss |-> 9,
       tp1 |-> 3, tp2 |-> 0] : tk \in Tickers }

Round2(x) ==
    LET r == x % Quantum
    IN  IF 2 * r < Quantum THEN x - r ELSE x - r + Quantum

Max2(a, b) == IF a >= b THEN a ELSE b
Min2(a, b) == IF a <= b THEN a ELSE b

Range(f) == { f[i] : i \in DOMAIN f }

SetMax(S) == CHOOSE m \in S : \A x \in S : x <= m
SetMin(S) == CHOOSE m \in S : \A x \in S : m <= x

----------------------------------------------------------------------------
(* signal_logger.py *)

NewTracked(signal, id, now) ==
    [ signal_id     |-> id,
      timestamp     |-> now,
      ticker        |-> signal.ticker,
      direction     |-> signal.direction,
      entry         |-> signal.entry,
      stop_loss     |-> signal.stop_loss,
      tp1           |-> signal.tp1,
      tp2           |-> signal.tp2,
      status        |-> "ACTIVE",
      tp1_hit       |-> FALSE,
      tp1_hit_time  |-> None,
      tp2_hit       |-> FALSE,
      tp2_hit_time  |-> None,
      sl_hit        |-> FALSE,
      sl_hit_time   |-> None,
      current_price |-> signal.entry,
      highest_price |-> signal.entry,
      lowest_price  |-> signal.entry,
      max_favorable |-> 0,
      max_adverse   |-> 0,
      last_checked  |-> now,
      checks_count  |-> 0,
      pnl_at_close  |-> None ]

\* mutant: no record is taken for a duplicate of the signal
IsDuplicate_Never(store, signal) == FALSE

\* the duplicate check of log_signal
IsDuplicate(store, signal) ==
    \E i \in DOMAIN store :
        /\ store[i].ticker = signal.ticker
        /\ store[i].direction = signal.direction
        /\ store[i].status = "ACTIVE"

\* the id log_signal returns for a duplicate: the first matching record's
ExistingId(store, signal) ==
    LET k == SetMin({ i \in DOMAIN store :
                        /\ store[i].ticker = signal.ticker
                        /\ store[i].direction = signal.direction
                        /\ store[i].status = "ACTIVE" })
    IN  store[k].signal_id

\* mutant: every stored record is handed to the tracker
get_active_signals_AnyStatus(store) == store

get_active_signals(store) == SelectSeq(store, LAMBDA s : s.status = "ACTIVE")

get_open_signals(store) ==
    SelectSeq(store, LAMBDA s : s.status \in {"ACTIVE", "TP1_HIT"})

\* dict.update: keys of upd replace those of rec
DictUpdate(rec, upd) == upd @@ rec

\* mutant: the updates go to every record, whatever its id
update_signal_EveryRecord(store, signal_id, upd) ==
    [i \in DOMAIN store |-> DictUpdate(store[i], upd)]

\* update_signal: the first record with the id takes the updates
update_signal(store, signal_id, upd) ==
    LET hits == { i \in DOMAIN store : store[i].signal_id = signal_id }
    IN  IF hits = {} THEN store
        ELSE LET k == SetMin(hits)
             IN  [store EXCEPT ![k] = DictUpdate(store[k], upd)]

----------------------------------------------------------------------------
(* signal_tracker.py *)

\* a bar of the hourly frame; Low <= Close <= High
Bars(now) ==
    { [t |-> tm, Low |-> q[1], Close |-> q[2], High |-> q[3]] :
        tm \in {now}, q \in QuoteSet }

\* frames a download may yield at time now (the bars the tracker reads)
Frames(now) == { <<b>> : b \in Bars(now) }

\* age of a signal in days; the clock counts periods of SIGNAL_EXPIRY_DAYS days
AgeDays(now, sig_time) == (now - sig_time) * SIGNAL_EXPIRY_DAYS

\* bars since the signal was logged, the latest bar if there is none
Recent(df, sig_time) ==
    LET since == SelectSeq(df, LAMBDA b : b.t >= sig_time)
    IN  IF since = <<>> THEN <<df[Len(df)]>> ELSE since

\* what one poll reads from the frame
Window(df, sig_time) ==
    LET recent == Recent(df, sig_time)
    IN  [ close |-> df[Len(df)].Close,
          high  |-> SetMax({ recent[i].High : i \in DOMAIN recent }),
          low   |-> SetMin({ recent[i].Low  : i \in DOMAIN recent }) ]

\* mutant: the targets are tested before the stop
BuyOutcome_TargetsFirst(sig, w, now) ==
    IF w.high >= sig.tp2 THEN
        [ status |-> "TP2_HIT", tp1_hit |-> TRUE, tp2_hit |-> TRUE,
          tp2_hit_time |-> Some(now),
          pnl_at_close |-> Some(Round2(sig.tp2 - sig.entry)) ]
    ELSE IF w.high >= sig.tp1 THEN
        [ status |-> "TP1_HIT", tp1_hit |-> TRUE, tp1_hit_time |-> Some(now),
          pnl_at_close |-> Some(Round2(sig.tp1 - sig.entry)) ]
    ELSE IF w.low <= sig.stop_loss THEN
        [ status |-> "SL_HIT", sl_hit |-> TRUE, sl_hit_time |-> Some(now),
          pnl_at_close |-> Some(Round2(sig.stop_loss - sig.entry)) ]
    ELSE <<>>

\* mutant: the second target's branch leaves tp1_hit as it was
BuyOutcome_Tp1Unmarked(sig, w, now) ==
    IF w.low <= sig.stop_loss THEN
        [ status |-> "SL_HIT", sl_hit |-> TRUE, sl_hit_time |-> Some(now),
          pnl_at_close |-> Some(Round2(sig.stop_loss - sig.entry)) ]
    ELSE IF w.high >= sig.tp2 THEN
        [ status |-> "TP2_HIT", tp2_hit |-> TRUE, tp2_hit_time |-> Some(now),
          pnl_at_close |-> Some(Round2(sig.tp2 - sig.entry)) ]
    ELSE IF w.high >= sig.tp1 THEN
        [ status |-> "TP1_HIT", tp1_hit |-> TRUE, tp1_hit_time |-> Some(now),
          pnl_at_close |-> Some(Round2(sig.tp1 - sig.entry)) ]
    ELSE <<>>

\* updates["status"] .. of the BUY branch
BuyOutcome(sig, w, now) ==
    IF w.low <= sig.stop_loss THEN
        [ status |-> "SL_HIT", sl_hit |-> TRUE, sl_hit_time |-> Some(now),
          pnl_at_close |-> Some(Round2(sig.stop_loss - sig.entry)) ]
    ELSE IF w.high >= sig.tp2 THEN
        [ status |-> "TP2_HIT", tp1_hit |-> TRUE, tp2_hit |-> TRUE,
          tp2_hit_time |-> Some(now),
          pnl_at_close |-> Some(Round2(sig.tp2 - sig.entry)) ]
    ELSE IF w.high >= sig.tp1 THEN
        (IF ~sig.tp1_hit
            THEN [ tp1_hit |-> TRUE, tp1_hit_time |-> Some(now) ]
            ELSE <<>>)
        @@ [ status |-> "TP1_HIT",
             pnl_at_close |-> Some(Round2(sig.tp1 - sig.entry)) ]
    ELSE <<>>

\* mutant: the first target is tested before the second
SellOutcome_Tp1BeforeTp2(sig, w, now) ==
    IF w.high >= sig.stop_loss THEN
        [ status |-> "SL_HIT", sl_hit |-> TRUE, sl_hit_time |-> Some(now),
          pnl_at_close |-> Some(Round2(sig.entry - sig.stop_loss)) ]
    ELSE IF w.low <= sig.tp1 THEN
        [ status |-> "TP1_HIT", tp1_hit |-> TRUE, tp1_hit_time |-> Some(now),
          pnl_at_close |-> Some(Round2(sig.entry - sig.tp1)) ]
    ELSE IF w.low <= sig.tp2 THEN
        [ status |-> "TP2_HIT", tp1_hit |-> TRUE, tp2_hit |-> TRUE,
          tp2_hit_time |-> Some(now),
          pnl_at_close |-> Some(Round2(sig.entry - sig.tp2)) ]
    ELSE <<>>

\* updates["status"] .. of the SELL branch
SellOutcome(sig, w, now) ==
    IF w.high >= sig.stop_loss THEN
        [ status |-> "SL_HIT", sl_hit |-> TRUE, sl_hit_time |-> Some(now),
          pnl_at_close |-> Some(Round2(sig.entry - sig.stop_loss)) ]
    ELSE IF w.low <= sig.tp2 THEN
        [ status |-> "TP2_HIT", tp1_hit |-> TRUE, tp2_hit |-> TRUE,
          tp2_hit_time |-> Some(now),
          pnl_at_close |-> Some(Round2(sig.entry - sig.tp2)) ]
    ELSE IF w.low <= sig.tp1 THEN
        (IF ~sig.tp1_hit
            THEN [ tp1_hit |-> TRUE, tp1_hit_time |-> Some(now) ]
            ELSE <<>>)
        @@ [ status |-> "TP1_HIT",
             pnl_at_close |-> Some(Round2(sig.entry - sig.tp1)) ]
    ELSE <<>>

\* mutant: the excursions add up over the polls instead of being recomputed
Excursions_Accumulated(sig, w) ==
    [ highest_price |-> Round2(Max2(sig.highest_price, w.high)),
      lowest_price  |-> Round2(Min2(sig.lowest_price, w.low)),
      max_favorable |-> IF sig.direction = "BUY"
                           THEN Round2(sig.max_favorable + (w.high - sig.entry))
                           ELSE Round2(sig.max_favorable + (sig.entry - w.low)),
      max_adverse   |-> IF sig.direction = "BUY"
                           THEN Round2(sig.max_adverse + (sig.entry - w.low))
                           ELSE Round2(sig.max_adverse + (w.high - sig.entry)) ]

\* mutant: the extremes are those of the window, not the running ones
Excursions_WindowOnly(sig, w) ==
    [ highest_price |-> Round2(w.high),
      lowest_price  |-> Round2(w.low),
      max_favorable |-> IF sig.direction = "BUY"
                           THEN Round2(w.high - sig.entry)
                           ELSE Round2(sig.entry - w.low),
      max_adverse   |-> IF sig.direction = "BUY"
                           THEN Round2(sig.entry - w.low)
                           ELSE Round2(w.high - sig.entry) ]

\* running extremes and excursions of either branch
Excursions(sig, w) ==
    [ highest_price |-> Round2(Max2(sig.highest_price, w.high)),
      lowest_price  |-> Round2(Min2(sig.lowest_price, w.low)),
      max_favorable |-> IF sig.direction = "BUY"
                           THEN Round2(w.high - sig.entry)
                           ELSE Round2(sig.entry - w.low),
      max_adverse   |-> IF sig.direction = "BUY"
                           THEN Round2(sig.entry - w.low)
                           ELSE Round2(w.high - sig.entry) ]

\* mutant: a signal expires on reaching the horizon, not on passing it
Expiry_AtHorizon(sig, upd, w, now) ==
    LET st == IF "status" \in DOMAIN upd THEN upd.status ELSE sig.status
    IN  IF st = "ACTIVE" /\ AgeDays(now, sig.timestamp) >= SIGNAL_EXPIRY_DAYS
        THEN [ status |-> "EXPIRED",
               pnl_at_close |-> IF sig.direction = "BUY"
                                   THEN Some(Round2(w.close - sig.entry))
                                   ELSE Some(Round2(sig.entry - w.close)) ]
        ELSE <<>>

\* the expiry check after the direction branches
Expiry(sig, upd, w, now) ==
    LET st == IF "status" \in DOMAIN upd THEN upd.status ELSE sig.status
    IN  IF st = "ACTIVE" /\ AgeDays(now, sig.timestamp) > SIGNAL_EXPIRY_DAYS
        THEN [ status |-> "EXPIRED",
               pnl_at_close |-> IF sig.direction = "BUY"
                                   THEN Some(Round2(w.close - sig.entry))
                                   ELSE Some(Round2(sig.entry - w.close)) ]
        ELSE <<>>

\* mutant: the poll ends after the direction branches, without the expiry
\* check
Updates_ExpirySkipped(sig, df, now) ==
    LET w    == Window(df, sig.timestamp)
        base == [ current_price |-> Round2(w.close),
                  last_checked  |-> now,
                  checks_count  |-> sig.checks_count + 1 ]
    IN  (IF sig.direction = "BUY"
            THEN BuyOutcome(sig, w, now) @@ Excursions(sig, w)
            ELSE SellOutcome(sig, w, now) @@ Excursions(sig, w)) @@ base

\* the updates dict built for one signal of the loop
Updates(sig, df, now) ==
    LET w    == Window(df, sig.timestamp)
        base == [ current_price |-> Round2(w.close),
                  last_checked  |-> now,
                  checks_count  |-> sig.checks_count + 1 ]
        dirn == IF sig.direction = "BUY"
                   THEN BuyOutcome(sig, w, now) @@ Excursions(sig, w)
                   ELSE IF sig.direction = "SELL"
                   THEN SellOutcome(sig, w, now) @@ Excursions(sig, w)
                   ELSE <<>>
        upd  == dirn @@ base
    IN  Expiry(sig, upd, w, now) @@ upd

RECURSIVE TrackLoop(_, _, _, _, _)

\* mutant: a ticker without data ends the loop instead of being skipped
TrackLoop_StopAtFailure(todo, pd, now, store, cnt) ==
    IF todo = <<>> THEN [store |-> store, cnt |-> cnt]
    ELSE
        LET sig == Head(todo)
        IN  IF sig.ticker \notin DOMAIN pd
            THEN [store |-> store, cnt |-> cnt]
            ELSE
                LET upd == Updates(sig, pd[sig.ticker], now)
                IN  TrackLoop(Tail(todo), pd, now,
                              update_signal(store, sig.signal_id, upd), cnt)

\* the loop over the active snapshot: polls, store updates and counters
TrackLoop(todo, pd, now, store, cnt) ==
    IF todo = <<>> THEN [store |-> store, cnt |-> cnt]
    ELSE
        LET sig == Head(todo)
        IN  IF sig.ticker \notin DOMAIN pd
            THEN TrackLoop(Tail(todo), pd, now, store, cnt)
            ELSE
                LET upd == Updates(sig, pd[sig.ticker], now)
                    st  == IF "status" \in DOMAIN upd THEN upd.status ELSE "ACTIVE"
                    hit == IF "pnl_at_close" \in DOMAIN upd THEN st ELSE "ACTIVE"
                    c2  == [ tp1_hits |-> cnt.tp1_hits + (IF hit = "TP1_HIT" THEN 1 ELSE 0),
                             tp2_hits |-> cnt.tp2_hits + (IF hit = "TP2_HIT" THEN 1 ELSE 0),
                             sl_hits  |-> cnt.sl_hits  + (IF hit = "SL_HIT"  THEN 1 ELSE 0),
                             expired  |-> cnt.expired  + (IF hit = "EXPIRED" THEN 1 ELSE 0) ]
                IN  TrackLoop(Tail(todo), pd, now,
                              update_signal(store, sig.signal_id, upd), c2)

\* polls performed so far, over all records
RECURSIVE TotalChecks(_)
TotalChecks(store) ==
    IF store = <<>> THEN 0
    ELSE Head(store).checks_count + TotalChecks(Tail(store))

ZeroCounts == [tp1_hits |-> 0, tp2_hits |-> 0, sl_hits |-> 0, expired |-> 0]

\* tickers of the snapshot (ticker_groups)
TickerGroups(snapshot) == { snapshot[i].ticker : i \in DOMAIN snapshot }

\* windows read so far, by signal id, extended by those of one run
PolledNow(snapshot, pd, seen) ==
    [ id \in { snapshot[i].signal_id :
                 i \in { j \in DOMAIN snapshot : snapshot[j].ticker \in DOMAIN pd } }
        |-> LET sig == CHOOSE x \in { snapshot[i] : i \in DOMAIN snapshot } :
                            x.signal_id = id
                old == IF id \in DOMAIN seen THEN seen[id] ELSE <<>>
            IN  Append(old, Window(pd[sig.ticker], sig.timestamp)) ]

----------------------------------------------------------------------------
(* Actions *)

NoCall  == [call |-> "none"]
NoSizing == [call |-> "none"]
NoFetch == [tk \in Tickers |-> "skipped"]

Init ==
    /\ active = <<>>
    /\ history = <<>>
    /\ clock = 0
    /\ nextId = 1
    /\ fetch_ok = NoFetch
    /\ polled = <<>>
    /\ result = NoCall
    /\ sizing = NoSizing
    /\ active_file = "ok"

\* _load_json(ACTIVE_FILE): a file that is no JSON reads as [], one that is
\* no UTF-8 text raises UnicodeDecodeError, which is not caught
load_json(file, content) ==
    IF file = "ok" THEN [raised |-> "none", data |-> content]
    ELSE IF file = "invalid_json" THEN [raised |-> "none", data |-> <<>>]
    ELSE [raised |-> "UnicodeDecodeError", data |-> <<>>]

\* The operation ends with the exception of its first read
Raises(call) ==
    /\ result' = [call |-> call, raised |-> load_json(active_file, active).raised]
    /\ fetch_ok' = NoFetch
    /\ UNCHANGED <<active, history, clock, nextId, polled, sizing, active_file>>

\* log_signal(signal)
LogSignal(signal) ==
    /\ nextId <= MaxSignals
    /\ IF load_json(active_file, active).raised # "none" THEN Raises("log_signal")
       ELSE
       /\ IF IsDuplicate(load_json(active_file, active).data, signal)
             THEN /\ result' = [call |-> "log_signal", id |-> ExistingId(active, signal)]
                  /\ UNCHANGED <<active, nextId, active_file>>
             ELSE /\ active' = Append(load_json(active_file, active).data,
                                      NewTracked(signal, nextId, clock))
                  /\ nextId' = nextId + 1
                  /\ active_file' = "ok"
                  /\ result' = [call |-> "log_signal", id |-> nextId]
       /\ fetch_ok' = NoFetch
       /\ UNCHANGED <<history, clock, polled, sizing>>

\* track_all_signals() with the downloads of this run
TrackRunOn(frames) ==
    LET snapshot == get_active_signals(load_json(active_file, active).data)
    IN  /\ IF load_json(active_file, active).raised # "none"
           THEN Raises("track_all_signals")
           ELSE /\ IF snapshot = <<>>
                   THEN /\ result' = [call |-> "track_all_signals", checked |-> 0] @@ ZeroCounts
                        /\ fetch_ok' = NoFetch
                        /\ UNCHANGED <<active, polled>>
                   ELSE \E ok \in SUBSET TickerGroups(snapshot) :
                        \E pd \in [ok -> frames] :
                            LET r == TrackLoop(snapshot, pd, clock, active, ZeroCounts)
                            IN  /\ active' = r.store
                                /\ fetch_ok' = [tk \in Tickers |->
                                                   IF tk \in ok THEN "ok"
                                                   ELSE IF tk \in TickerGroups(snapshot)
                                                   THEN "failed" ELSE "skipped"]
                                /\ polled' = PolledNow(snapshot, pd, polled) @@ polled
                                /\ result' =
                                     [ call |-> "track_all_signals",
                                       checked |-> Len(snapshot),
                                       still_active |->
                                           Len(snapshot) - r.cnt.tp1_hits - r.cnt.tp2_hits
                                             - r.cnt.sl_hits - r.cnt.expired ] @@ r.cnt
                /\ UNCHANGED <<history, clock, nextId, sizing, active_file>>

\* a run of the tracker, while the model's budget of polls lasts
TrackAllSignals ==
    /\ TotalChecks(active \o history) < MaxPolls
    /\ TrackRunOn(Frames(clock))

\* archive_resolved()
ArchiveResolved ==
    LET loaded == load_json(active_file, active).data
        still_active == SelectSeq(loaded, LAMBDA s : s.status = "ACTIVE")
    IN  IF load_json(active_file, active).raised # "none"
        THEN Raises("archive_resolved")
        ELSE
        /\ active' = still_active
        /\ active_file' = "ok"
        /\ history' = history \o SelectSeq(loaded, LAMBDA s : s.status # "ACTIVE")
        /\ result' = [call |-> "archive_resolved",
                       count |-> Len(loaded) - Len(still_active)]
        /\ fetch_ok' = NoFetch
        /\ UNCHANGED <<clock, nextId, polled, sizing>>

\* the process ends; the next cron run starts later with the files as left
Tick ==
    /\ clock < MaxClock
    /\ clock' = clock + 1
    /\ result' = NoCall
    /\ fetch_ok' = NoFetch
    /\ UNCHANGED <<active, history, nextId, polled, sizing, active_file>>

Next ==
    \/ \E signal \in SignalInputs : LogSignal(signal)
    \/ TrackAllSignals
    \/ ArchiveResolved
    \/ Tick

Spec == Init /\ [][Next]_vars

----------------------------------------------------------------------------
(* The tracker run from cron for as long as signals are open *)

\* log_signal while the modelled time still lets the signal pass the horizon
LiveLogSignal(signal) ==
    /\ AgeDays(MaxClock, clock) > SIGNAL_EXPIRY_DAYS
    /\ LogSignal(signal)

\* the frames of the live runs: a quiet bar, one that touches 9 (the first
\* target of a BUY, the stop of a SELL) and one that touches 3
LiveFrames(now) ==
    { f \in Frames(now) :
        <<f[1].Low, f[1].Close, f[1].High>> \in {<<4, 8, 8>>, <<4, 8, 9>>, <<3, 4, 4>>} }

\* a run of the tracker: within the budget of polls, and with one more poll
\* for each signal once the modelled time has ended
LiveBudget ==
    \/ TotalChecks(active \o history) < LivePolls
    \/ /\ clock = MaxClock
       /\ \A r \in Range(active) :
             r.status = "ACTIVE" => r.checks_count <= LivePolls

LiveTrack == LiveBudget /\ TrackRunOn(LiveFrames(clock))

\* a run of the tracker can poll a signal of ticker tk
LiveOpen(tk) ==
    /\ LiveBudget
    /\ \E r \in Range(active) : r.ticker = tk /\ r.status = "ACTIVE"

\* this step is a run that downloaded the bars of ticker tk
LiveTrackWithData(tk) ==
    result'.call = "track_all_signals" /\ fetch_ok'[tk] = "ok"

LiveNext ==
    \/ \E signal \in SignalInputs : LiveLogSignal(signal)
    \/ LiveTrack
    \/ ArchiveResolved
    \/ Tick

\* cron keeps starting the tracker as time passes (weak fairness of Tick),
\* and the provider answers for a ticker again and again: weak fairness of
\* the runs with data for tk, with their enabling condition written out
LiveFairness ==
    /\ WF_vars(Tick)
    /\ \A tk \in Tickers :
          ([]<>(~LiveOpen(tk))) \/ ([]<><<LiveTrackWithData(tk)>>_vars)

LiveSpec == Init /\ [][LiveNext]_vars /\ LiveFairness

----------------------------------------------------------------------------
(* The store with a damaged active file *)

\* how the file can be damaged: cut off in the middle of a write (no JSON
\* any more), or overwritten with bytes that are no UTF-8 text
Damage == {"invalid_json", "undecodable"}

\* something outside the program damages active_signals.json; the records
\* it held are gone
DamageActiveFile ==
    /\ active_file = "ok"
    /\ \E d \in Damage : active_file' = d
    /\ active' = <<>>
    /\ result' = NoCall
    /\ fetch_ok' = NoFetch
    /\ UNCHANGED <<history, clock, nextId, polled, sizing>>

\* get_active_signals()
GetActiveSignals ==
    IF load_json(active_file, active).raised # "none"
    THEN Raises("get_active_signals")
    ELSE /\ result' = [call |-> "get_active_signals",
                        ret |-> get_active_signals(load_json(active_file, active).data)]
         /\ fetch_ok' = NoFetch
         /\ UNCHANGED <<active, history, clock, nextId, polled, sizing, active_file>>

\* get_all_tracked()
GetAllTracked ==
    IF load_json(active_file, active).raised # "none"
    THEN Raises("get_all_tracked")
    ELSE /\ result' = [call |-> "get_all_tracked",
                        ret |-> load_json(active_file, active).data]
         /\ fetch_ok' = NoFetch
         /\ UNCHANGED <<active, history, clock, nextId, polled, sizing, active_file>>

\* ids a caller may pass: those of the records logged so far and one more
SignalIds == 1..(MaxSignals + 1)

\* update_signal(signal_id, updates) with the updates the tracker builds for
\* a signal it read as ACTIVE; the id is that signal's or one of no record
UpdateSignal ==
    LET loaded == load_json(active_file, active).data
    IN  /\ TotalChecks(active \o history) < MaxPolls
        /\ \E sig \in Range(get_active_signals(active)) :
           \E df \in Frames(clock) :
           \E signal_id \in SignalIds :
             /\ \/ signal_id = sig.signal_id
                \/ \A r \in Range(loaded) : r.signal_id # signal_id
             /\ active' = update_signal(loaded, signal_id, Updates(sig, df, clock))
             /\ result' = [call |-> "update_signal", signal_id |-> signal_id]
        /\ fetch_ok' = NoFetch
        /\ UNCHANGED <<history, clock, nextId, polled, sizing, active_file>>

StoreNext ==
    \/ \E signal \in SignalInputs : LogSignal(signal)
    \/ TrackAllSignals
    \/ ArchiveResolved
    \/ GetActiveSignals
    \/ GetAllTracked
    \/ UpdateSignal
    \/ DamageActiveFile

StoreSpec == Init /\ [][StoreNext]_vars

----------------------------------------------------------------------------
(* Numbers of the sizer.  A float is held as an exact integer count of a   *)
(* unit: prices and ATR in thousandths (PriceUnit), lot sizes and ratios   *)
(* in hundredths (LotUnit), money in cents, balances in whole dollars,     *)
(* risk percent in whole percent, ATR multipliers in tenths (MultUnit).    *)
(* A quotient that is not on its grid is kept as numerator and             *)
(* denominator until the code rounds or compares it.                       *)

PriceUnit == 1000
LotUnit == 100
MultUnit == 10

Abs(x) == IF x < 0 THEN -x ELSE x

\* round(n / d) to the nearest whole unit, d > 0.  A decimal tie is decided
\* by the binary double nearest to the value, which lies above or below the
\* tie: tieUp is that outcome.
RoundDiv(n, d, tieUp) ==
    LET q == n \div d
        r == n - q * d
    IN  IF 2 * r < d THEN q
        ELSE IF 2 * r > d THEN q + 1
        ELSE IF tieUp THEN q + 1 ELSE q

\* a / b < c / d for a, c >= 0 and b, d > 0, by whole parts and remainders
RECURSIVE FracLt(_, _, _, _)
FracLt(a, b, c, d) ==
    LET q1 == a \div b
        q2 == c \div d
        r1 == a % b
        r2 == c % d
    IN  IF q1 # q2 THEN q1 < q2
        ELSE IF r2 = 0 THEN FALSE
        ELSE IF r1 = 0 THEN TRUE
        ELSE FracLt(d, r2, b, r1)

----------------------------------------------------------------------------
(* Settings and instrument tables used by the sizer *)

ACCOUNT_BALANCE == 10000
RISK_PERCENT == 1
\* 0.05 lots, in hundredths
MAX_LOT_PER_1000 == 5
\* 1.5, 2.0 and 3.0, in tenths
SL_ATR_MULTIPLIER == 15
TP1_ATR_MULTIPLIER == 20
TP2_ATR_MULTIPLIER == 30
MIN_SIGNAL_SCORE == 4

\* yf_ticker_alt is "" where the table has none: info.get("yf_ticker_alt", "").
\* min_lot 0.01 is 1 hundredth.
COMMODITIES ==
    << [name |-> "Gold Futures (XAUUSD)", yf_ticker |-> "GC=F",
        yf_ticker_alt |-> "XAUUSD=X", dollar_per_1_move |-> 100,
        currency |-> "USD", min_lot |-> 1],
       [name |-> "Silver Futures (XAGUSD)", yf_ticker |-> "SI=F",
        yf_ticker_alt |-> "XAGUSD=X", dollar_per_1_move |-> 5000,
        currency |-> "USD", min_lot |-> 1],
       [name |-> "Crude Oil Futures (WTI)", yf_ticker |-> "CL=F",
        yf_ticker_alt |-> "", dollar_per_1_move |-> 1000,
        currency |-> "USD", min_lot |-> 1] >>

ALL_COMMODITY_TICKERS == { COMMODITIES[i].yf_ticker : i \in DOMAIN COMMODITIES }
ALL_MCX_TICKERS == {"GOLDBEES.NS", "SILVERBEES.NS", "CL=F", "NG=F", "HG=F"}
ALL_INDEX_TICKERS == {"^NSEI", "^NSEBANK"}
ALL_STOCK_TICKERS == {"RELIANCE.NS", "TCS.NS"}

\* ticker.replace(".NS", "")
StripNS(ticker) ==
    CASE ticker = "RELIANCE.NS" -> "RELIANCE"
      [] ticker = "TCS.NS"      -> "TCS"
      [] OTHER                  -> ticker

get_commodity_info(ticker) ==
    LET hits == { i \in DOMAIN COMMODITIES :
                    ticker \in {COMMODITIES[i].yf_ticker,
                                COMMODITIES[i].yf_ticker_alt} }
    IN  IF hits = {} THEN None ELSE Some(COMMODITIES[SetMin(hits)])

get_instrument_type(ticker) ==
    IF ticker \in ALL_COMMODITY_TICKERS THEN "commodity"
    ELSE IF ticker \in ALL_MCX_TICKERS THEN "mcx_commodity"
    ELSE IF ticker \in ALL_INDEX_TICKERS THEN "index"
    ELSE IF ticker \in ALL_STOCK_TICKERS THEN "stock"
    ELSE "unknown"

\* x or default, for an optional number: None and 0 are both falsy
PyOr(x, dflt) ==
    IF x = None THEN dflt
    ELSE IF x[1] = 0 THEN dflt ELSE x[1]

\* The places where a call rounds; up is the set of them whose tie, if the
\* value is one, goes up.  The same value always rounds the same way; the
\* reported prices and amounts share one site.
RoundSites == {"raw_lot", "max_lot", "other"}

----------------------------------------------------------------------------
(* strategy/position_sizing.py *)

\* risk_amount = balance * (risk_pct / 100.0), in cents
RiskAmount(account_balance, risk_percent) ==
    PyOr(account_balance, ACCOUNT_BALANCE) * PyOr(risk_percent, RISK_PERCENT)

calculate_lot_size_Stock(ticker, entry_price, stop_loss_price, account_balance, risk_percent, up) ==
    LET sl_distance == Abs(entry_price - stop_loss_price)
        risk_amount == RiskAmount(account_balance, risk_percent)
        \* raw_qty = risk_amount / sl_distance, as numerator and denominator
        raw_num     == risk_amount * PriceUnit
        raw_den     == sl_distance * LotUnit
        qty         == Max2(1, raw_num \div raw_den)
    IN  Some([ lot_size     |-> qty * LotUnit,
               risk_amount  |-> risk_amount,
               actual_risk  |-> RoundDiv(sl_distance * qty * LotUnit, PriceUnit, "other" \in up),
               sl_distance  |-> RoundDiv(sl_distance * LotUnit, PriceUnit, "other" \in up),
               entry_price  |-> RoundDiv(entry_price * LotUnit, PriceUnit, "other" \in up),
               stop_loss    |-> RoundDiv(stop_loss_price * LotUnit, PriceUnit, "other" \in up),
               instrument   |-> StripNS(ticker),
               currency     |-> "INR",
               was_capped   |-> FALSE ])

calculate_lot_size_Commodity(ticker, entry_price, stop_loss_price, account_balance, risk_percent, up) ==
    LET commodity_info == get_commodity_info(ticker)
    IN  IF commodity_info = None THEN None
        ELSE
        LET balance     == PyOr(account_balance, ACCOUNT_BALANCE)
            sl_distance == Abs(entry_price - stop_loss_price)
            risk_amount == RiskAmount(account_balance, risk_percent)
            dollar_per_1_move == commodity_info[1].dollar_per_1_move
            min_lot == commodity_info[1].min_lot
            \* raw_lot = risk_amount / (sl_distance * dollar_per_1_move),
            \* in hundredths, as numerator and denominator
            raw_num == risk_amount * PriceUnit
            raw_den == sl_distance * dollar_per_1_move
            lot0    == Max2(min_lot, RoundDiv(raw_num, raw_den, "raw_lot" \in up))
            \* max_lot = (balance / 1000.0) * MAX_LOT_PER_1000, likewise
            max_num == balance * MAX_LOT_PER_1000
            max_den == 1000
            lot_size == IF lot0 * max_den > max_num
                        THEN RoundDiv(max_num, max_den, "max_lot" \in up)
                        ELSE lot0
        IN  Some([ lot_size        |-> lot_size,
                   risk_amount     |-> risk_amount,
                   actual_risk     |-> RoundDiv(sl_distance * dollar_per_1_move * lot_size,
                                                PriceUnit, "other" \in up),
                   sl_distance     |-> RoundDiv(sl_distance * LotUnit, PriceUnit, "other" \in up),
                   entry_price     |-> RoundDiv(entry_price * LotUnit, PriceUnit, "other" \in up),
                   stop_loss       |-> RoundDiv(stop_loss_price * LotUnit, PriceUnit, "other" \in up),
                   max_lot_allowed |-> RoundDiv(max_num, max_den, "max_lot" \in up),
                   instrument      |-> commodity_info[1].name,
                   currency        |-> commodity_info[1].currency,
                   was_capped      |-> FracLt(max_num, max_den, raw_num, raw_den) ])

\* A sizer that guesses: whatever is not a commodity is sized like a stock
calculate_lot_size_GuessStock(ticker, entry_price, stop_loss_price, account_balance, risk_percent, up) ==
    IF entry_price = stop_loss_price THEN None
    ELSE IF get_instrument_type(ticker) = "commodity"
         THEN calculate_lot_size_Commodity(ticker, entry_price, stop_loss_price,
                                           account_balance, risk_percent, up)
    ELSE calculate_lot_size_Stock(ticker, entry_price, stop_loss_price,
                                  account_balance, risk_percent, up)

calculate_lot_size(ticker, entry_price, stop_loss_price, account_balance, risk_percent, up) ==
    IF Abs(entry_price - stop_loss_price) = 0 THEN None
    ELSE IF get_instrument_type(ticker) = "commodity"
         THEN calculate_lot_size_Commodity(ticker, entry_price, stop_loss_price,
                                           account_balance, risk_percent, up)
    ELSE IF get_instrument_type(ticker) = "stock"
         THEN calculate_lot_size_Stock(ticker, entry_price, stop_loss_price,
                                       account_balance, risk_percent, up)
    ELSE None

calculate_trade_levels(ticker, entry_price, atr, direction, up) ==
    LET sl  == IF direction = "BUY"
               THEN entry_price - (SL_ATR_MULTIPLIER * atr) \div MultUnit
               ELSE entry_price + (SL_ATR_MULTIPLIER * atr) \div MultUnit
        tp1 == IF direction = "BUY"
               THEN entry_price + (TP1_ATR_MULTIPLIER * atr) \div MultUnit
               ELSE entry_price - (TP1_ATR_MULTIPLIER * atr) \div MultUnit
        tp2 == IF direction = "BUY"
               THEN entry_price + (TP2_ATR_MULTIPLIER * atr) \div MultUnit
               ELSE entry_price - (TP2_ATR_MULTIPLIER * atr) \div MultUnit
        sizing_ == calculate_lot_size(ticker, entry_price, sl, None, None, up)
    IN  IF sizing_ = None THEN None
        ELSE
        LET sl_distance  == Abs(entry_price - sl)
            tp1_distance == Abs(entry_price - tp1)
            tp2_distance == Abs(entry_price - tp2)
            lot_size     == sizing_[1].lot_size
            commodity_info == get_commodity_info(ticker)
            dpm == IF get_instrument_type(ticker) # "commodity" THEN 1
                   ELSE IF commodity_info = None THEN 100
                   ELSE commodity_info[1].dollar_per_1_move
        IN  Some([ direction       |-> direction,
                   entry           |-> RoundDiv(entry_price * LotUnit, PriceUnit, "other" \in up),
                   stop_loss       |-> RoundDiv(sl * LotUnit, PriceUnit, "other" \in up),
                   tp1             |-> RoundDiv(tp1 * LotUnit, PriceUnit, "other" \in up),
                   tp2             |-> RoundDiv(tp2 * LotUnit, PriceUnit, "other" \in up),
                   atr             |-> RoundDiv(atr * LotUnit, PriceUnit, "other" \in up),
                   sl_distance     |-> RoundDiv(sl_distance * LotUnit, PriceUnit, "other" \in up),
                   lot_size        |-> lot_size,
                   rr_tp1          |-> IF sl_distance > 0
                                       THEN RoundDiv(tp1_distance * LotUnit, sl_distance, "other" \in up)
                                       ELSE 0,
                   rr_tp2          |-> IF sl_distance > 0
                                       THEN RoundDiv(tp2_distance * LotUnit, sl_distance, "other" \in up)
                                       ELSE 0,
                   potential_loss  |-> RoundDiv(sl_distance * dpm * lot_size, PriceUnit, "other" \in up),
                   potential_tp1   |-> RoundDiv(tp1_distance * dpm * lot_size, PriceUnit, "other" \in up),
                   potential_tp2   |-> RoundDiv(tp2_distance * dpm * lot_size, PriceUnit, "other" \in up),
                   account_balance |-> ACCOUNT_BALANCE,
                   risk_percent    |-> RISK_PERCENT,
                   was_capped      |-> sizing_[1].was_capped ])

\* The parameters calculate_trade_levels declares
calculate_trade_levels_params == {"ticker", "entry_price", "atr", "direction"}

\* A keyword call: a keyword that is no parameter raises TypeError
\* before the body runs.
CallTradeLevelsKw(kwargs, up) ==
    IF ~ (DOMAIN kwargs \subseteq calculate_trade_levels_params)
    THEN [raised |-> "TypeError", ret |-> None]
    ELSE [raised |-> "none",
          ret |-> calculate_trade_levels(kwargs.ticker, kwargs.entry_price,
                                         kwargs.atr, kwargs.direction, up)]

\* What check_signal and check_best_opportunity build from the trade levels
SignalFrom(ticker, direction, signal_type, score, trade) ==
    [ ticker         |-> ticker,
      type           |-> get_instrument_type(ticker),
      direction      |-> direction,
      signal_type    |-> signal_type,
      signal_score   |-> score,
      entry          |-> trade.entry,
      stop_loss      |-> trade.stop_loss,
      tp1            |-> trade.tp1,
      tp2            |-> trade.tp2,
      tp3            |-> IF "tp3" \in DOMAIN trade THEN Some(trade.tp3) ELSE None,
      lot_size       |-> trade.lot_size,
      atr            |-> trade.atr,
      rr_tp1         |-> trade.rr_tp1,
      rr_tp2         |-> trade.rr_tp2,
      potential_loss |-> trade.potential_loss,
      potential_tp1  |-> trade.potential_tp1,
      potential_tp2  |-> trade.potential_tp2,
      sl_distance    |-> trade.sl_distance,
      was_capped     |-> trade.was_capped ]

\* The end of both functions: trade is the outcome of the keyword call
EmitFrom(ticker, direction, signal_type, score, trade) ==
    IF trade.raised # "none" THEN trade
    ELSE IF trade.ret = None THEN [raised |-> "none", ret |-> None]
    ELSE [raised |-> "none",
          ret |-> Some(SignalFrom(ticker, direction, signal_type, score,
                                  trade.ret[1]))]

\* An ending of check_signal that keeps every score
check_signal_Emit_KeepAll(ticker, close, atr, direction, signal_type, score, up) ==
    EmitFrom(ticker, direction, signal_type, score,
             CallTradeLevelsKw([ticker |-> ticker, entry_price |-> close,
                                atr |-> atr, direction |-> direction,
                                signal_score |-> score], up))

\* check_signal from the score threshold on: the classification and the
\* score are inputs here
check_signal_Emit(ticker, close, atr, direction, signal_type, score, up) ==
    IF score < MIN_SIGNAL_SCORE THEN [raised |-> "none", ret |-> None]
    ELSE EmitFrom(ticker, direction, signal_type, score,
                  CallTradeLevelsKw([ticker |-> ticker, entry_price |-> close,
                                     atr |-> atr, direction |-> direction,
                                     signal_score |-> score], up))

\* check_best_opportunity from the session gate on
check_best_opportunity_Emit(ticker, close, atr, direction, score, session, up) ==
    IF session = "THIN" THEN [raised |-> "none", ret |-> None]
    ELSE EmitFrom(ticker, direction, "Trend Opportunity", score,
                  CallTradeLevelsKw([ticker |-> ticker, entry_price |-> close,
                                     atr |-> atr, direction |-> direction,
                                     signal_score |-> score], up))

----------------------------------------------------------------------------
(* Calls into the sizer.  The tracker's files are not touched. *)

MaxScore == 7

SizerTickers == {"GC=F", "SI=F", "CL=F", "XAUUSD=X", "GOLDBEES.NS", "^NSEI",
                 "RELIANCE.NS", "DOGE-USD"}

\* <<entry_price, stop_loss_price>>, in thousandths
PricePairs == { <<5140000, 5102500>>,     \* 5140 / 5102.50
                <<5140000, 5140000>>,     \* stop on the entry
                <<5140000, 5139000>>,
                <<2850000, 2760000>>,
                <<86800, 92050>> }        \* 86.80 / 92.05

Balances == { None, Some(0), Some(50), Some(150), Some(10000), Some(10100),
              Some(10350) }

RiskPercents == { None, Some(0), Some(2), Some(3) }

Closes == { 5140000, 86800 }

\* The products with SL_ATR_MULTIPLIER are whole thousandths
Atrs == { 0, 2, 3500, 25000 }

Directions == {"BUY", "SELL"}

\* Scores on both sides of the threshold
Scores == {0, MIN_SIGNAL_SCORE - 1, MIN_SIGNAL_SCORE, MaxScore}

SignalTypes == {"EMA Crossover", "Pullback Buy"}

\* get_session_quality() is consulted for commodities only
Sessions(ticker) ==
    IF get_instrument_type(ticker) \in {"commodity", "mcx_commodity"}
    THEN {"NORMAL", "KILL_ZONE", "THIN"}
    ELSE {"NORMAL"}

Idle == sizing = NoSizing

TrackerUnchanged ==
    UNCHANGED <<active, history, clock, nextId, fetch_ok, polled, result, active_file>>

CalculateLotSize ==
    /\ Idle
    /\ \E ticker \in SizerTickers, pp \in PricePairs, account_balance \in Balances,
          risk_percent \in RiskPercents, up \in SUBSET RoundSites :
            sizing' = [ call   |-> "calculate_lot_size",
                        args   |-> [ticker |-> ticker, entry_price |-> pp[1],
                                    stop_loss_price |-> pp[2],
                                    account_balance |-> account_balance,
                                    risk_percent |-> risk_percent],
                        raised |-> "none",
                        ret    |-> calculate_lot_size(ticker, pp[1], pp[2],
                                       account_balance, risk_percent, up) ]
    /\ TrackerUnchanged

CalculateTradeLevels ==
    /\ Idle
    /\ \E ticker \in SizerTickers, entry_price \in Closes, atr \in Atrs,
          direction \in Directions, up \in SUBSET RoundSites :
            sizing' = [ call   |-> "calculate_trade_levels",
                        args   |-> [ticker |-> ticker, entry_price |-> entry_price,
                                    atr |-> atr, direction |-> direction],
                        raised |-> "none",
                        ret    |-> calculate_trade_levels(ticker, entry_price, atr,
                                                          direction, up) ]
    /\ TrackerUnchanged

CheckSignalEmit ==
    /\ Idle
    /\ \E ticker \in SizerTickers, close \in Closes, atr \in Atrs,
          direction \in Directions, signal_type \in SignalTypes,
          score \in Scores, up \in SUBSET RoundSites :
            sizing' = [ call |-> "check_signal",
                        args |-> [ticker |-> ticker, entry_price |-> close,
                                  atr |-> atr, direction |-> direction,
                                  signal_type |-> signal_type, score |-> score] ]
                      @@ check_signal_Emit(ticker, close, atr, direction,
                                           signal_type, score, up)
    /\ TrackerUnchanged

CheckBestOpportunityEmit ==
    /\ Idle
    /\ \E ticker \in SizerTickers, close \in Closes, atr \in Atrs,
          direction \in Directions, score \in 1..3 :
       \E session \in Sessions(ticker), up \in SUBSET RoundSites :
            sizing' = [ call |-> "check_best_opportunity",
                        args |-> [ticker |-> ticker, entry_price |-> close,
                                  atr |-> atr, direction |-> direction,
                                  score |-> score, session |-> session] ]
                      @@ check_best_opportunity_Emit(ticker, close, atr, direction,
                                                     score, session, up)
    /\ TrackerUnchanged

\* The caller takes the outcome
SizerReturn ==
    /\ ~ Idle
    /\ sizing' = NoSizing
    /\ TrackerUnchanged

SizerNext ==
    \/ CalculateLotSize
    \/ CalculateTradeLevels
    \/ CheckSignalEmit
    \/ CheckBestOpportunityEmit
    \/ SizerReturn

SizerSpec == Init /\ [][SizerNext]_vars

----------------------------------------------------------------------------
(* Indicator values.  A value read from the latest bar is a number, NaN    *)
(* (the indicator is still warming up) or None (the column is absent).     *)
(* RSI and ADX are whole points; ratios are in hundredths.                 *)

PyNum(v) == [k |-> "num", v |-> v]
PyNaN    == [k |-> "nan", v |-> 0]
PyNone   == [k |-> "none", v |-> 0]

\* x is not None and not pd.isna(x)
Available(x) == x.k = "num"

\* Comparisons with NaN are false
Ge(x, n) == x.k = "num" /\ x.v >= n
Le(x, n) == x.k = "num" /\ x.v <= n
Lt(x, n) == x.k = "num" /\ x.v < n
Gt(x, n) == x.k = "num" /\ x.v > n
Between(lo, x, hi) == Ge(x, lo) /\ Le(x, hi)

\* any(f["in_zone"] for f in zones)
AnyInZone(zones) == \E i \in DOMAIN zones : zones[i].in_zone

----------------------------------------------------------------------------
(* strategy/signals.py: _calculate_signal_score *)

\* The sum of the components and adjustments, before the clamp
ScoreSum(direction, adx, rsi, vol_ratio, confirmation_trend, current, regime, session, fvg_zones, divergence) ==
      (IF Ge(adx, 40) THEN 3 ELSE IF Ge(adx, 30) THEN 2 ELSE IF Ge(adx, 20) THEN 1 ELSE 0)
    + (IF Ge(vol_ratio, 150) THEN 2 ELSE IF Ge(vol_ratio, 100) THEN 1 ELSE 0)
    + (IF direction = "BUY"
       THEN (IF Between(50, rsi, 65) THEN 2 ELSE IF Between(45, rsi, 70) THEN 1 ELSE 0)
       ELSE IF direction = "SELL"
       THEN (IF Between(35, rsi, 50) THEN 2 ELSE IF Between(30, rsi, 55) THEN 1 ELSE 0)
       ELSE 0)
    + (IF direction = "BUY"
       THEN (IF current.trend = 1 /\ confirmation_trend = 1 THEN 2
             ELSE IF current.trend = 1 \/ confirmation_trend >= 0 THEN 1 ELSE 0)
       ELSE IF direction = "SELL"
       THEN (IF current.trend = -1 /\ confirmation_trend = -1 THEN 2
             ELSE IF current.trend = -1 \/ confirmation_trend <= 0 THEN 1 ELSE 0)
       ELSE 0)
    + (IF direction = "BUY" /\ Gt(current.macd_hist, 0) THEN 1
       ELSE IF direction = "SELL" /\ Lt(current.macd_hist, 0) THEN 1 ELSE 0)
    + (IF direction = "BUY" /\ current.supertrend_dir = 1 THEN 1
       ELSE IF direction = "SELL" /\ current.supertrend_dir = -1 THEN 1 ELSE 0)
    + (IF Available(current.stochrsi_k) /\ Available(current.stochrsi_d)
       THEN (IF direction = "BUY" /\ current.stochrsi_k.v > current.stochrsi_d.v THEN 1
             ELSE IF direction = "SELL" /\ current.stochrsi_k.v < current.stochrsi_d.v THEN 1
             ELSE 0)
       ELSE 0)
    + (IF direction = "BUY" /\ current.bos = 1 THEN 1
       ELSE IF direction = "SELL" /\ current.bos = -1 THEN 1 ELSE 0)
    + (IF fvg_zones = None THEN 0
       ELSE IF direction = "BUY" /\ AnyInZone(fvg_zones[1].bull_fvg) THEN 1
       ELSE IF direction = "SELL" /\ AnyInZone(fvg_zones[1].bear_fvg) THEN 1 ELSE 0)
    + (IF divergence = None THEN 0
       ELSE IF direction = "BUY" /\ (divergence[1].bull_rsi \/ divergence[1].bull_macd) THEN 2
       ELSE IF direction = "SELL" /\ (divergence[1].bear_rsi \/ divergence[1].bear_macd) THEN 2
       ELSE 0)
    + (IF direction = "BUY" /\ current.ichi_above_cloud = 1 THEN 1
       ELSE IF direction = "SELL" /\ current.ichi_below_cloud = 1 THEN 1 ELSE 0)
    + (IF direction = "BUY" /\ current.psar_dir = 1 THEN 1
       ELSE IF direction = "SELL" /\ current.psar_dir = -1 THEN 1 ELSE 0)
    + (IF direction = "BUY" /\ current.vwap_bull = 1 THEN 1
       ELSE IF direction = "SELL" /\ current.vwap_bull = 0 THEN 1 ELSE 0)
    + (IF direction = "BUY" /\ current.hma_bull = 1 THEN 1
       ELSE IF direction = "SELL" /\ current.hma_bull = 0 THEN 1 ELSE 0)
    + (IF regime = "RANGING" THEN -1 ELSE IF regime = "SQUEEZE" THEN 1 ELSE 0)
    + (IF session = "KILL_ZONE" THEN 1 ELSE IF session = "THIN" THEN -2 ELSE 0)

\* A scorer that forgets the clamp
calculate_signal_score_Unclamped(direction, signal_type, adx, rsi, vol_ratio, confirmation_trend, current, regime, session, fvg_zones, divergence) ==
    ScoreSum(direction, adx, rsi, vol_ratio, confirmation_trend, current,
             regime, session, fvg_zones, divergence)

\* return max(0, min(10, score))
calculate_signal_score(direction, signal_type, adx, rsi, vol_ratio, confirmation_trend, current, regime, session, fvg_zones, divergence) ==
    Max2(0, Min2(10, ScoreSum(direction, adx, rsi, vol_ratio, confirmation_trend,
                              current, regime, session, fvg_zones, divergence)))

----------------------------------------------------------------------------
(* strategy/indicators.py: the latest bar of a processed frame.  A frame   *)
(* is modelled by its length, the columns add_indicators computes for its  *)
(* latest bar (a function from column name to value), the bar before it,   *)
(* and what detect_fair_value_gaps and detect_divergence find in it.       *)

EMA_SLOW == 50
ADX_MIN_THRESHOLD == 20
VOLUME_MIN_RATIO == 100          \* 1.0, in hundredths
CANDLE_BODY_MIN_RATIO == 35      \* 0.35, in hundredths

\* latest.get(col, default)
Get(row, col, default) == IF col \in DOMAIN row THEN row[col] ELSE default

\* add_indicators: a frame shorter than EMA_SLOW + 10 bars is returned as
\* it came, without any indicator column
add_indicators(df) ==
    IF df.len < EMA_SLOW + 10
    THEN [df EXCEPT !.latest = [c \in {"close"} |-> df.latest.close]]
    ELSE df

get_current_indicators(df) ==
    LET latest == df.latest
    IN  [ close               |-> latest.close,
          ema_fast            |-> Get(latest, "ema_fast", PyNone),
          rsi                 |-> Get(latest, "rsi", PyNone),
          atr                 |-> Get(latest, "atr", PyNone),
          adx                 |-> Get(latest, "adx", PyNone),
          macd_hist           |-> Get(latest, "macd_hist", PyNone),
          prev_macd_hist      |-> Get(latest, "prev_macd_hist", PyNone),
          body_ratio          |-> Get(latest, "body_ratio", PyNum(50)),
          vol_ratio           |-> Get(latest, "vol_ratio", PyNum(100)),
          trend               |-> Get(latest, "trend", 0),
          ema_cross           |-> Get(latest, "ema_cross", 0),
          regime              |-> Get(latest, "regime", "RANGING"),
          supertrend_dir      |-> Get(latest, "supertrend_dir", 0),
          prev_supertrend_dir |-> Get(latest, "prev_supertrend_dir", 0),
          stochrsi_k          |-> Get(latest, "stochrsi_k", PyNone),
          stochrsi_d          |-> Get(latest, "stochrsi_d", PyNone),
          bos                 |-> Get(latest, "bos", 0),
          choch               |-> Get(latest, "choch", 0),
          ichi_above_cloud    |-> Get(latest, "ichi_above_cloud", 0),
          ichi_below_cloud    |-> Get(latest, "ichi_below_cloud", 0),
          ichi_tk_cross       |-> Get(latest, "ichi_tk_cross", 0),
          psar_dir            |-> Get(latest, "psar_dir", 0),
          don_breakout        |-> Get(latest, "don_breakout", 0),
          hma_bull            |-> Get(latest, "hma_bull", 0),
          vwap_bull           |-> Get(latest, "vwap_bull", 0) ]

----------------------------------------------------------------------------
(* strategy/signals.py: check_signal, the hard filters and the rules *)

\* The ADX filter with the floor itself rejected
HardFiltered_FloorRejected(current) ==
    \/ Le(current.adx, ADX_MIN_THRESHOLD)
    \/ Lt(current.body_ratio, CANDLE_BODY_MIN_RATIO)
    \/ current.regime = "VOLATILE"

\* One of the three hard filters rejects the snapshot
HardFiltered(current) ==
    \/ Lt(current.adx, ADX_MIN_THRESHOLD)
    \/ Lt(current.body_ratio, CANDLE_BODY_MIN_RATIO)
    \/ current.regime = "VOLATILE"

\* confirmation_trend: df_confirmation is None, or the trend of its
\* latest bar (0 when it has none)
ConfirmationTrend(current, df_confirmation) ==
    IF df_confirmation # None THEN df_confirmation[1].trend ELSE current.trend

macd_available(current) ==
    Available(current.macd_hist) /\ Available(current.prev_macd_hist)
macd_bullish(current) == macd_available(current) /\ current.macd_hist.v > 0
macd_bearish(current) == macd_available(current) /\ current.macd_hist.v < 0
MacdAllowsBuy(current)  == ~ macd_available(current) \/ macd_bullish(current)
MacdAllowsSell(current) == ~ macd_available(current) \/ macd_bearish(current)

st_flipped(current) ==
    /\ current.supertrend_dir # 0
    /\ current.prev_supertrend_dir # 0
    /\ current.supertrend_dir # current.prev_supertrend_dir

\* direction is None
NoRule == [direction |-> "None", signal_type |-> "None"]
Admit(direction, signal_type) == [direction |-> direction, signal_type |-> signal_type]

\* TYPE 1: EMA Crossover + MACD confirmation
Rule1(df, current, ct) ==
    IF current.ema_cross = 1 /\ Between(45, current.rsi, 70) /\ ct >= 0
       /\ MacdAllowsBuy(current)
    THEN Admit("BUY", "EMA Crossover")
    ELSE IF current.ema_cross = -1 /\ Between(30, current.rsi, 55) /\ ct <= 0
            /\ MacdAllowsSell(current)
    THEN Admit("SELL", "EMA Crossover")
    ELSE NoRule

\* TYPE 2: BOS / CHoCH
Rule2(df, current, ct) ==
    IF current.bos = 1 /\ ct >= 0 /\ Between(35, current.rsi, 70)
    THEN Admit("BUY", "BOS Bullish")
    ELSE IF current.bos = -1 /\ ct <= 0 /\ Between(30, current.rsi, 65)
    THEN Admit("SELL", "BOS Bearish")
    ELSE IF current.choch = 1 /\ Between(30, current.rsi, 65)
    THEN Admit("BUY", "CHoCH Bullish")
    ELSE IF current.choch = -1 /\ Between(35, current.rsi, 70)
    THEN Admit("SELL", "CHoCH Bearish")
    ELSE NoRule

\* TYPE 3: SuperTrend Flip
Rule3(df, current, ct) ==
    IF ~ st_flipped(current) THEN NoRule
    ELSE IF current.supertrend_dir = 1 /\ ct >= 0 /\ Between(35, current.rsi, 72)
    THEN Admit("BUY", "SuperTrend Flip")
    ELSE IF current.supertrend_dir = -1 /\ ct <= 0 /\ Between(28, current.rsi, 65)
    THEN Admit("SELL", "SuperTrend Flip")
    ELSE NoRule

\* TYPE 4: Ichimoku TK Cross
Rule4(df, current, ct) ==
    IF current.ichi_tk_cross = 1 /\ current.ichi_above_cloud = 1 /\ ct >= 0
       /\ Between(35, current.rsi, 70)
    THEN Admit("BUY", "Ichimoku TK Cross")
    ELSE IF current.ichi_tk_cross = -1 /\ current.ichi_below_cloud = 1 /\ ct <= 0
            /\ Between(30, current.rsi, 65)
    THEN Admit("SELL", "Ichimoku TK Cross")
    ELSE NoRule

\* TYPE 5: Donchian Breakout, with a volume surge of 1.2
Rule5(df, current, ct) ==
    IF current.don_breakout = 1 /\ ct >= 0 /\ Between(40, current.rsi, 75)
       /\ Ge(current.vol_ratio, 120)
    THEN Admit("BUY", "Donchian Breakout")
    ELSE IF current.don_breakout = -1 /\ ct <= 0 /\ Between(25, current.rsi, 60)
            /\ Ge(current.vol_ratio, 120)
    THEN Admit("SELL", "Donchian Breakout")
    ELSE NoRule

\* abs(close - ema_fast) <= 0.5 * atr
is_near_ema20(current) ==
    /\ Available(current.ema_fast) /\ Available(current.atr)
    /\ 2 * Abs(current.close - current.ema_fast.v) <= current.atr.v

\* TYPE 6: Trend Pullback
Rule6(df, current, ct) ==
    IF df.len < 3 THEN NoRule
    ELSE IF current.trend = 1 /\ ct >= 0
    THEN IF /\ is_near_ema20(current) /\ Between(40, current.rsi, 65)
            /\ df.prev1.Low * 1000 <= current.ema_fast.v * 1003
            /\ current.close > df.prev1.Close
            /\ MacdAllowsBuy(current)
         THEN Admit("BUY", "Pullback Buy") ELSE NoRule
    ELSE IF current.trend = -1 /\ ct <= 0
    THEN IF /\ is_near_ema20(current) /\ Between(35, current.rsi, 60)
            /\ df.prev1.High * 1000 >= current.ema_fast.v * 997
            /\ current.close < df.prev1.Close
            /\ MacdAllowsSell(current)
         THEN Admit("SELL", "Pullback Sell") ELSE NoRule
    ELSE NoRule

\* TYPE 7: FVG Retracement
Rule7(df, current, ct) ==
    IF AnyInZone(df.fvg_zones.bull_fvg) /\ current.trend = 1 /\ ct >= 0
       /\ Between(30, current.rsi, 65) /\ MacdAllowsBuy(current)
    THEN Admit("BUY", "FVG Buy")
    ELSE IF AnyInZone(df.fvg_zones.bear_fvg) /\ current.trend = -1 /\ ct <= 0
            /\ Between(35, current.rsi, 70) /\ MacdAllowsSell(current)
    THEN Admit("SELL", "FVG Sell")
    ELSE NoRule

Rule(i, df, current, ct) ==
    CASE i = 1 -> Rule1(df, current, ct)
      [] i = 2 -> Rule2(df, current, ct)
      [] i = 3 -> Rule3(df, current, ct)
      [] i = 4 -> Rule4(df, current, ct)
      [] i = 5 -> Rule5(df, current, ct)
      [] i = 6 -> Rule6(df, current, ct)
      [] i = 7 -> Rule7(df, current, ct)

\* Each later block runs only while direction is None
RECURSIVE FirstFrom(_, _, _, _)
FirstFrom(i, df, current, ct) ==
    IF i > 7 THEN NoRule
    ELSE IF Rule(i, df, current, ct) # NoRule THEN Rule(i, df, current, ct)
    ELSE FirstFrom(i + 1, df, current, ct)

\* A cascade in which a later block overrides an earlier one
Classify_LastWins(df, current, ct) ==
    IF \A i \in 1..7 : Rule(i, df, current, ct) = NoRule THEN NoRule
    ELSE Rule(SetMax({ i \in 1..7 : Rule(i, df, current, ct) # NoRule }),
              df, current, ct)

Classify(df, current, ct) == FirstFrom(1, df, current, ct)

\* A return before the sizer is reached: at names the place, won the
\* rule's decision and score the score, as far as they were computed
Quiet(at, won, score) ==
    [raised |-> "none", ret |-> None, at |-> at, won |-> won, score |-> score]

\* check_signal from the score on
CheckSignalScored(df, current, ct, ticker, won, score, up) ==
    [at |-> IF score < MIN_SIGNAL_SCORE THEN "score" ELSE "sizer",
     won |-> won, score |-> Some(score)]
    @@ check_signal_Emit(ticker, current.close, current.atr, won.direction,
                         won.signal_type, score, up)

\* mutant: the volume filter rejects a reading at the floor as well
CheckSignalRuled_FloorRejected(df, current, ct, ticker, session, won, up) ==
    IF won = NoRule THEN Quiet("no_rule", NoRule, None)
    ELSE IF Le(current.vol_ratio, VOLUME_MIN_RATIO) THEN Quiet("volume", won, None)
    ELSE CheckSignalScored(df, current, ct, ticker, won,
             calculate_signal_score(won.direction, won.signal_type, current.adx,
                 current.rsi, current.vol_ratio, ct, current, current.regime,
                 session, Some(df.fvg_zones), Some(df.divergence)),
             up)

\* check_signal from the rules on
CheckSignalRuled(df, current, ct, ticker, session, won, up) ==
    IF won = NoRule THEN Quiet("no_rule", NoRule, None)
    ELSE IF Lt(current.vol_ratio, VOLUME_MIN_RATIO) THEN Quiet("volume", won, None)
    ELSE CheckSignalScored(df, current, ct, ticker, won,
             calculate_signal_score(won.direction, won.signal_type, current.adx,
                 current.rsi, current.vol_ratio, ct, current, current.regime,
                 session, Some(df.fvg_zones), Some(df.divergence)),
             up)

\* check_signal on the snapshot
CheckSignalOn(df, current, df_confirmation, ticker, session, up) ==
    IF current.ema_fast = PyNone \/ current.rsi = PyNone \/ current.atr = PyNone
    THEN Quiet("no_data", NoRule, None)
    ELSE IF HardFiltered(current) THEN Quiet("filter", NoRule, None)
    ELSE CheckSignalRuled(df, current, ConfirmationTrend(current, df_confirmation),
                          ticker, session,
                          Classify(df, current,
                                   ConfirmationTrend(current, df_confirmation)),
                          up)

\* session is what get_session_quality() answers at the time of the call
check_signal(df, df_confirmation, ticker, session, up) ==
    IF df.len = 0 THEN Quiet("no_data", NoRule, None)
    ELSE CheckSignalOn(add_indicators(df), get_current_indicators(add_indicators(df)),
                       df_confirmation, ticker, session, up)

----------------------------------------------------------------------------
(* strategy/signals.py: check_best_opportunity *)

\* score = 1, +1 for adx >= 25, +1 for average volume, at most 3
OpportunityScore(current) ==
    Min2(3, 1 + (IF Ge(current.adx, 25) THEN 1 ELSE 0)
              + (IF Ge(current.vol_ratio, 100) THEN 1 ELSE 0))

CheckBestOpportunityOn(current, ticker, session, won, score, up) ==
    [at |-> IF session = "THIN" THEN "session" ELSE "sizer",
     won |-> won, score |-> Some(score)]
    @@ check_best_opportunity_Emit(ticker, current.close, current.atr,
                                   won.direction, score, session, up)

CheckBestOpportunityFiltered(current, ticker, session, up) ==
    IF current.ema_fast = PyNone \/ current.rsi = PyNone \/ current.atr = PyNone
    THEN Quiet("no_data", NoRule, None)
    ELSE IF \/ ~ Ge(current.adx, 10)
            \/ current.trend = 0
            \/ current.regime = "VOLATILE"
            \/ (current.trend = 1 /\ Gt(current.rsi, 78))
            \/ (current.trend = -1 /\ Lt(current.rsi, 22))
    THEN Quiet("filter", NoRule, None)
    ELSE CheckBestOpportunityOn(current, ticker, session,
             Admit(IF current.trend = 1 THEN "BUY" ELSE "SELL", "Trend Opportunity"),
             OpportunityScore(current), up)

check_best_opportunity(df, ticker, session, up) ==
    IF df.len = 0 THEN Quiet("no_data", NoRule, None)
    ELSE CheckBestOpportunityFiltered(get_current_indicators(add_indicators(df)),
                                      ticker, session, up)

----------------------------------------------------------------------------
(* Frames handed to the classifier.  Prices are thousandths. *)

\* a bar count below EMA_SLOW + 10 and one above
ShortLen == 2
LongLen == 60

NoOverride == [c \in {} |-> 0]

\* the latest bar of a quiet market: no event, MACD still warming up
BaseRow ==
    [ close |-> 86800, ema_fast |-> PyNum(86700), rsi |-> PyNum(50),
      atr |-> PyNum(3500), adx |-> PyNum(25), macd_hist |-> PyNaN,
      prev_macd_hist |-> PyNaN, body_ratio |-> PyNum(60),
      vol_ratio |-> PyNum(110), trend |-> 0, ema_cross |-> 0,
      regime |-> "TRENDING", supertrend_dir |-> 0, prev_supertrend_dir |-> 0,
      stochrsi_k |-> PyNum(50), stochrsi_d |-> PyNum(50), bos |-> 0, choch |-> 0,
      ichi_above_cloud |-> 0, ichi_below_cloud |-> 0, ichi_tk_cross |-> 0,
      psar_dir |-> 0, don_breakout |-> 0, hma_bull |-> 0, vwap_bull |-> 0 ]

BounceBar == [Low |-> 86500, High |-> 86900, Close |-> 86600]
AwayBar   == [Low |-> 88000, High |-> 88100, Close |-> 88050]
DropBar   == [Low |-> 86900, High |-> 87100, Close |-> 87000]

NoZones   == [bull_fvg |-> <<>>, bear_fvg |-> <<>>]
BullZone  == [bull_fvg |-> <<[in_zone |-> TRUE], [in_zone |-> FALSE]>>, bear_fvg |-> <<>>]
BearZone  == [bull_fvg |-> <<[in_zone |-> FALSE]>>, bear_fvg |-> <<[in_zone |-> TRUE]>>]

NoDivergence == [bull_rsi |-> FALSE, bear_rsi |-> FALSE, bull_macd |-> FALSE, bear_macd |-> FALSE]
BullDivergence == [NoDivergence EXCEPT !.bull_rsi = TRUE]
BearDivergence == [NoDivergence EXCEPT !.bear_macd = TRUE]

\* what happened on the latest bars: the events the rules look for
Patterns ==
    { [row |-> NoOverride, prev1 |-> AwayBar, fvg_zones |-> NoZones],
      [row |-> [ema_cross |-> 1, trend |-> 1], prev1 |-> AwayBar, fvg_zones |-> NoZones],
      [row |-> [ema_cross |-> 1, trend |-> 1], prev1 |-> BounceBar, fvg_zones |-> BullZone],
      [row |-> [ema_cross |-> -1, trend |-> -1], prev1 |-> DropBar, fvg_zones |-> BearZone],
      [row |-> [bos |-> 1, don_breakout |-> 1], prev1 |-> AwayBar, fvg_zones |-> NoZones],
      [row |-> [bos |-> -1, choch |-> 1], prev1 |-> AwayBar, fvg_zones |-> NoZones],
      [row |-> [choch |-> -1, ichi_tk_cross |-> -1, ichi_below_cloud |-> 1],
       prev1 |-> AwayBar, fvg_zones |-> NoZones],
      [row |-> [supertrend_dir |-> 1, prev_supertrend_dir |-> -1, trend |-> 1],
       prev1 |-> BounceBar, fvg_zones |-> NoZones],
      [row |-> [ichi_tk_cross |-> 1, ichi_above_cloud |-> 1, don_breakout |-> 1],
       prev1 |-> AwayBar, fvg_zones |-> NoZones],
      [row |-> [don_breakout |-> 1, trend |-> 1], prev1 |-> BounceBar, fvg_zones |-> BullZone],
      [row |-> [don_breakout |-> -1, trend |-> -1], prev1 |-> DropBar, fvg_zones |-> BearZone],
      [row |-> [trend |-> 1], prev1 |-> BounceBar, fvg_zones |-> BullZone],
      [row |-> [trend |-> 1], prev1 |-> AwayBar, fvg_zones |-> BullZone],
      [row |-> [trend |-> -1], prev1 |-> DropBar, fvg_zones |-> BearZone],
      [row |-> [trend |-> -1], prev1 |-> AwayBar, fvg_zones |-> BearZone] }

\* one reading that differs from the quiet market's
Deviations ==
    { NoOverride,
      [adx |-> PyNum(19)], [adx |-> PyNum(20)], [adx |-> PyNum(45)], [adx |-> PyNaN],
      [body_ratio |-> PyNum(34)], [body_ratio |-> PyNum(35)],
      [regime |-> "VOLATILE"], [regime |-> "RANGING"], [regime |-> "SQUEEZE"],
      [vol_ratio |-> PyNum(90)], [vol_ratio |-> PyNum(100)],
      [vol_ratio |-> PyNum(150)], [vol_ratio |-> PyNaN],
      [rsi |-> PyNum(20)], [rsi |-> PyNum(72)], [rsi |-> PyNaN],
      [ema_fast |-> PyNaN], [atr |-> PyNaN], [atr |-> PyNum(0)],
      [adx |-> PyNum(19), vol_ratio |-> PyNum(90)],
      [adx |-> PyNum(45), vol_ratio |-> PyNum(150)] }

\* the confirming indicators, and the divergence detector's answer
Confirmations ==
    { [row |-> NoOverride, divergence |-> NoDivergence],
      [row |-> [macd_hist |-> PyNum(5), prev_macd_hist |-> PyNum(3),
                supertrend_dir |-> 1, stochrsi_k |-> PyNum(60),
                ichi_above_cloud |-> 1, psar_dir |-> 1, hma_bull |-> 1,
                vwap_bull |-> 1],
       divergence |-> BullDivergence],
      [row |-> [macd_hist |-> PyNum(-5), prev_macd_hist |-> PyNum(-3),
                supertrend_dir |-> -1, stochrsi_k |-> PyNum(40),
                ichi_below_cloud |-> 1, psar_dir |-> -1],
       divergence |-> BearDivergence] }

Frame(len, p, d, c) ==
    [ len |-> len, latest |-> d @@ p.row @@ c.row @@ BaseRow, prev1 |-> p.prev1,
      fvg_zones |-> p.fvg_zones, divergence |-> c.divergence ]

DataFrames ==
    { Frame(LongLen, p, d, c) : p \in Patterns, d \in Deviations, c \in Confirmations }
    \cup { Frame(ShortLen, p, NoOverride, c) : p \in Patterns, c \in Confirmations }
    \cup { Frame(0, p, NoOverride, c) : p \in Patterns, c \in Confirmations }

\* the higher timeframe: none given, or the trend of its latest bar
Confirmation == { None, Some([trend |-> 1]), Some([trend |-> -1]) }

ClassifierTickers == {"SI=F", "RELIANCE.NS"}

CheckSignal ==
    /\ Idle
    /\ \E df \in DataFrames, df_confirmation \in Confirmation,
          ticker \in ClassifierTickers :
       \E session \in Sessions(ticker), up \in SUBSET RoundSites :
            sizing' = [ call |-> "check_signal",
                        args |-> [df |-> df, df_confirmation |-> df_confirmation,
                                  ticker |-> ticker, session |-> session] ]
                      @@ check_signal(df, df_confirmation, ticker, session, up)
    /\ TrackerUnchanged

CheckBestOpportunity ==
    /\ Idle
    /\ \E df \in DataFrames, ticker \in ClassifierTickers :
       \E session \in Sessions(ticker), up \in SUBSET RoundSites :
            sizing' = [ call |-> "check_best_opportunity",
                        args |-> [df |-> df, ticker |-> ticker, session |-> session] ]
                      @@ check_best_opportunity(df, ticker, session, up)
    /\ TrackerUnchanged

\* The readings _calculate_signal_score is called with
ScoreAdx == { PyNaN, PyNum(25), PyNum(45) }
ScoreRsi == { PyNum(20), PyNum(47), PyNum(60) }
ScoreVol == { PyNaN, PyNum(100), PyNum(150) }
ScoreSnapshots ==
    { get_current_indicators(Frame(LongLen, p, NoOverride, c)) :
        p \in { q \in Patterns : q.prev1 = BounceBar \/ q.row = NoOverride },
        c \in Confirmations }

CalculateSignalScore ==
    /\ Idle
    /\ \E direction \in Directions, adx \in ScoreAdx, rsi \in ScoreRsi,
          vol_ratio \in ScoreVol, confirmation_trend \in {-1, 0, 1} :
       \E current \in ScoreSnapshots, regime \in {"RANGING", "TRENDING", "SQUEEZE"},
          session \in {"NORMAL", "KILL_ZONE", "THIN"},
          fvg_zones \in {None, Some(BullZone), Some(BearZone)},
          divergence \in {None, Some(BullDivergence), Some(BearDivergence)} :
            sizing' = [ call |-> "_calculate_signal_score",
                        args |-> [direction |-> direction, adx |-> adx, rsi |-> rsi,
                                  vol_ratio |-> vol_ratio,
                                  confirmation_trend |-> confirmation_trend,
                                  current |-> current, regime |-> regime,
                                  session |-> session, fvg_zones |-> fvg_zones,
                                  divergence |-> divergence],
                        raised |-> "none",
                        ret |-> calculate_signal_score(direction, "EMA Crossover",
                                    adx, rsi, vol_ratio, confirmation_trend, current,
                                    regime, session, fvg_zones, divergence) ]
    /\ TrackerUnchanged

ClassifierNext ==
    \/ CheckSignal
    \/ CheckBestOpportunity
    \/ CalculateSignalScore
    \/ SizerReturn

ClassifierSpec == Init /\ [][ClassifierNext]_vars

----------------------------------------------------------------------------
(* scanner/market_scanner.py: scan_all and the opportunity fill *)

\* the instruments of one scan, in the order of the scanners: two of
\* scan_commodities, one of scan_mcx (the proxy ticker of gold) and three of
\* scan_stocks
ScanOrder ==
    << [ticker |-> "GC=F", type |-> "commodity"],
       [ticker |-> "SI=F", type |-> "commodity"],
       [ticker |-> "GC=F", type |-> "mcx_commodity"],
       [ticker |-> "RELIANCE.NS", type |-> "stock"],
       [ticker |-> "TCS.NS", type |-> "stock"],
       [ticker |-> "INFY.NS", type |-> "stock"] >>

\* what the scanner gets for one instrument: no data or neither signal, a
\* strict signal of check_signal, a fallback of check_best_opportunity, or
\* the exception of one of the two
ScanOutcomes ==
    { [kind |-> "none", signal_score |-> 0],
      [kind |-> "raises", signal_score |-> 0],
      [kind |-> "signal", signal_score |-> MIN_SIGNAL_SCORE],
      [kind |-> "opp", signal_score |-> MIN_SIGNAL_SCORE - 2],
      [kind |-> "opp", signal_score |-> MIN_SIGNAL_SCORE - 1] }

\* the signal dict of an instrument, as far as scan_all reads it
ScanSignal(inst, outcome) ==
    [ ticker       |-> inst.ticker,
      type         |-> inst.type,
      signal_type  |-> IF outcome.kind = "opp" THEN "Trend Opportunity"
                                              ELSE "EMA Crossover",
      signal_score |-> outcome.signal_score ]

\* the list a scanner returns: the signals of one kind, in scan order
RECURSIVE Scanned(_, _, _)
Scanned(outcomes, kind, i) ==
    IF i > Len(ScanOrder) THEN <<>>
    ELSE (IF outcomes[i].kind = kind
             THEN <<ScanSignal(ScanOrder[i], outcomes[i])>> ELSE <<>>)
         \o Scanned(outcomes, kind, i + 1)

\* list.sort(key=signal_score, reverse=True): stable, best first
SortByScore(opps) ==
    LET rank(i) ==
            Cardinality({ j \in DOMAIN opps :
                            \/ opps[j].signal_score > opps[i].signal_score
                            \/ /\ opps[j].signal_score = opps[i].signal_score
                               /\ j < i }) + 1
    IN  [ k \in DOMAIN opps |-> opps[CHOOSE i \in DOMAIN opps : rank(i) = k] ]

\* mutant: the fill is made whatever the number of strict signals
scan_all_AlwaysFilled(all_signals, all_opps) ==
    LET strict_tickers == { all_signals[i].ticker : i \in DOMAIN all_signals }
        fresh_opps == SortByScore(SelectSeq(all_opps,
                                    LAMBDA o : o.ticker \notin strict_tickers))
    IN  all_signals \o SubSeq(fresh_opps, 1, Min2(1, Len(fresh_opps)))

\* scan_all from the scanners' lists on: the signals of the result
scan_all(all_signals, all_opps) ==
    LET strict_tickers == { all_signals[i].ticker : i \in DOMAIN all_signals }
        fresh_opps == SortByScore(SelectSeq(all_opps,
                                    LAMBDA o : o.ticker \notin strict_tickers))
        needed == 4 - Len(all_signals)
    IN  IF Len(all_signals) < 3
        THEN all_signals \o SubSeq(fresh_opps, 1, Min2(needed, Len(fresh_opps)))
        ELSE all_signals

\* scan_all() with the outcomes of this scan; a market that is closed is
\* one whose instruments all have no outcome
ScanAll ==
    /\ Idle
    /\ \E outcomes \in [DOMAIN ScanOrder -> ScanOutcomes] :
          sizing' =
            [ call |-> "scan_all", args |-> [outcomes |-> outcomes] ]
            @@ IF \E i \in DOMAIN outcomes : outcomes[i].kind = "raises"
               THEN [raised |-> "TypeError", ret |-> None]
               ELSE [raised |-> "none",
                     ret |-> Some(scan_all(Scanned(outcomes, "signal", 1),
                                           Scanned(outcomes, "opp", 1)))]
    /\ TrackerUnchanged

ScanNext == ScanAll \/ SizerReturn

ScanSpec == Init /\ [][ScanNext]_vars

----------------------------------------------------------------------------
(* Vocabulary of the properties *)

Terminal == {"SL_HIT", "TP2_HIT", "EXPIRED"}

\* the record at position i of the active file is polled by this step
PolledStep(i) ==
    /\ i \in DOMAIN active /\ i \in DOMAIN active'
    /\ active'[i].signal_id = active[i].signal_id
    /\ active'[i].checks_count = active[i].checks_count + 1

\* the window the latest poll of a signal read
LastWindow(seen, id) == seen[id][Len(seen[id])]

StopBreached(sig, w) ==
    IF sig.direction = "BUY" THEN w.low <= sig.stop_loss
                             ELSE w.high >= sig.stop_loss

Tp2Reached(sig, w) ==
    IF sig.direction = "BUY" THEN w.high >= sig.tp2 ELSE w.low <= sig.tp2

Tp1Reached(sig, w) ==
    IF sig.direction = "BUY" THEN w.high >= sig.tp1 ELSE w.low <= sig.tp1

\* this step is a tracker run that found active signals
RunStep ==
    /\ result'.call = "track_all_signals"
    /\ "checked" \in DOMAIN result'
    /\ result'.checked > 0

----------------------------------------------------------------------------
\* C1: once a record's status is SL_HIT, TP2_HIT or EXPIRED, no step (a
\* tracker run with any windows at any time, a log_signal call, an archive
\* call) changes the status of the record with that id, wherever it is kept.
C1_TerminalStatusNeverChanges ==
    [][ \A r \in Range(active \o history) :
            r.status \in Terminal =>
                \E q \in Range(active' \o history') :
                    q.signal_id = r.signal_id /\ q.status = r.status ]_vars

\* a tracker run fetched the ticker of a record resolved in an earlier run
C1_Witness ==
    /\ result.call = "track_all_signals"
    /\ \E r \in Range(active) :
          /\ r.status \in Terminal
          /\ r.last_checked < clock
          /\ fetch_ok[r.ticker] = "ok"

\* C2: on every poll the stop is checked first: a BUY window whose low is at
\* or below the stop, a SELL window whose high is at or above the stop, ends
\* in SL_HIT, whatever targets the same window crossed.
C2_StopCheckedFirst ==
    [][ \A i \in DOMAIN active :
            PolledStep(i) =>
                LET w == LastWindow(polled', active[i].signal_id)
                IN  StopBreached(active[i], w) => active'[i].status = "SL_HIT" ]_vars

\* a window that breached the stop and crossed the first target gave SL_HIT
C2_Witness ==
    \E r \in Range(active) :
        /\ r.status = "SL_HIT"
        /\ r.signal_id \in DOMAIN polled
        /\ StopBreached(r, LastWindow(polled, r.signal_id))
        /\ Tp1Reached(r, LastWindow(polled, r.signal_id))

\* C3: a poll of an ACTIVE signal whose window reaches the second target and
\* does not breach the stop ends in TP2_HIT in that poll, with tp1_hit and
\* tp2_hit both set.
C3_Tp2Direct ==
    [][ \A i \in DOMAIN active :
            (PolledStep(i) /\ active[i].status = "ACTIVE") =>
                LET w == LastWindow(polled', active[i].signal_id)
                IN  (Tp2Reached(active[i], w) /\ ~StopBreached(active[i], w)) =>
                        /\ active'[i].status = "TP2_HIT"
                        /\ active'[i].tp1_hit
                        /\ active'[i].tp2_hit ]_vars

\* a signal went to TP2_HIT in its first poll, the first target never
\* having been recorded on its own
C3_Witness ==
    \E r \in Range(active) :
        /\ r.status = "TP2_HIT"
        /\ r.checks_count = 1
        /\ r.tp1_hit /\ r.tp2_hit /\ r.tp1_hit_time = None
        /\ ~StopBreached(r, LastWindow(polled, r.signal_id))

\* C4: a record in TP1_HIT is polled by every later run that has price data
\* for its ticker.
C4_Tp1StillPolled ==
    [][ \A i \in DOMAIN active :
            ( /\ active[i].status = "TP1_HIT"
              /\ RunStep
              /\ fetch_ok'[active[i].ticker] = "ok" )
            => PolledStep(i) ]_vars

\* C5 as claimed: a poll that reads the same window as the previous poll of
\* the signal leaves status, highest_price, lowest_price, max_favorable and
\* max_adverse as the previous poll left them.
C5_SameWindowSameStatus ==
    [][ \A i \in DOMAIN active :
            ( /\ PolledStep(i)
              /\ active[i].signal_id \in DOMAIN polled
              /\ LastWindow(polled', active[i].signal_id)
                   = LastWindow(polled, active[i].signal_id) )
            => /\ active'[i].status = active[i].status
               /\ active'[i].highest_price = active[i].highest_price
               /\ active'[i].lowest_price = active[i].lowest_price
               /\ active'[i].max_favorable = active[i].max_favorable
               /\ active'[i].max_adverse = active[i].max_adverse ]_vars

\* C5 as amended: the extremes and excursions are as the previous poll left
\* them, and so is the status unless the signal is older than the expiry
\* horizon at the second poll, when ACTIVE becomes EXPIRED.
C5_SameWindowSameExcursions ==
    [][ \A i \in DOMAIN active :
            ( /\ PolledStep(i)
              /\ active[i].signal_id \in DOMAIN polled
              /\ LastWindow(polled', active[i].signal_id)
                   = LastWindow(polled, active[i].signal_id) )
            => /\ \/ active'[i].status = active[i].status
                  \/ /\ active'[i].status = "EXPIRED"
                     /\ AgeDays(clock, active[i].timestamp) > SIGNAL_EXPIRY_DAYS
               /\ active'[i].highest_price = active[i].highest_price
               /\ active'[i].lowest_price = active[i].lowest_price
               /\ active'[i].max_favorable = active[i].max_favorable
               /\ active'[i].max_adverse = active[i].max_adverse ]_vars

\* a signal polled twice with the same window, whose rounded low left the entry
C5_Witness ==
    \E r \in Range(active) :
        /\ r.checks_count = 2
        /\ polled[r.signal_id][1] = polled[r.signal_id][2]
        /\ r.lowest_price # r.entry
        /\ r.max_adverse # 0

\* C6: a poll ends in EXPIRED exactly when the signal was ACTIVE, the window
\* hit neither the stop nor a target, and the age is more than 7 days; then
\* pnl_at_close is the recorded current price minus the entry (BUY) or the
\* entry minus it (SELL).  A poll that sets a hit flag does not expire.
C6_ExpiryExactly ==
    [][ \A i \in DOMAIN active :
            PolledStep(i) =>
                LET sig == active[i]
                    new == active'[i]
                    w   == LastWindow(polled', sig.signal_id)
                    hit == StopBreached(sig, w) \/ Tp2Reached(sig, w)
                             \/ Tp1Reached(sig, w)
                    age == AgeDays(clock, sig.timestamp)
                IN  /\ (new.status = "EXPIRED") <=>
                          (sig.status = "ACTIVE" /\ ~hit /\ age > SIGNAL_EXPIRY_DAYS)
                    /\ (new.status = "EXPIRED") =>
                          new.pnl_at_close =
                             Some(IF sig.direction = "BUY"
                                     THEN new.current_price - sig.entry
                                     ELSE sig.entry - new.current_price)
                    /\ (age <= SIGNAL_EXPIRY_DAYS) => new.status # "EXPIRED"
                    /\ (new.sl_hit \/ new.tp1_hit \/ new.tp2_hit)
                          => new.status # "EXPIRED" ]_vars

\* a signal expired with a profit or loss against the latest close
C6_Witness ==
    \E r \in Range(active) :
        /\ r.status = "EXPIRED"
        /\ r.pnl_at_close # Some(0)
        /\ AgeDays(clock, r.timestamp) > SIGNAL_EXPIRY_DAYS

\* C7: a run in which the download of some ticker fails still polls every
\* active signal of the tickers that have data, returns its summary, and
\* leaves the records of the failed ticker as they were.
C7_FailedTickerSkippedOnly ==
    [][ ( /\ result'.call = "track_all_signals"
          /\ \E tk \in Tickers : fetch_ok'[tk] = "failed" )
        => /\ result'.checked = Len(get_active_signals(active))
           /\ Len(active') = Len(active)
           /\ \A i \in DOMAIN active :
                 /\ (active[i].status = "ACTIVE" /\ fetch_ok'[active[i].ticker] = "ok")
                       => (PolledStep(i) /\ active'[i].last_checked = clock)
                 /\ (fetch_ok'[active[i].ticker] = "failed")
                       => active'[i] = active[i] ]_vars

\* a run polled two signals' tickers: one download failed, the other did not
C7_Witness ==
    /\ result.call = "track_all_signals"
    /\ result.checked = 2
    /\ \E tk \in Tickers : fetch_ok[tk] = "failed"
    /\ \E r \in Range(active) :
          fetch_ok[r.ticker] = "ok" /\ r.last_checked = clock /\ r.checks_count > 0

----------------------------------------------------------------------------
(* Vocabulary of the sizer's properties, computed from the arguments *)

Sized == sizing.call = "calculate_lot_size" /\ sizing.ret # None

ArgBalance == PyOr(sizing.args.account_balance, ACCOUNT_BALANCE)

\* cap = (balance / 1000) * MAX_LOT_PER_1000, in hundredths: CapNum / CapDen
CapNum == ArgBalance * MAX_LOT_PER_1000
CapDen == 1000

PerUnitValue(ticker) ==
    LET hits == { i \in DOMAIN COMMODITIES : COMMODITIES[i].yf_ticker = ticker }
    IN  IF hits = {} THEN 1 ELSE COMMODITIES[CHOOSE i \in hits : TRUE].dollar_per_1_move

\* uncapped size = risk_amount / (stop distance * per-unit value), in
\* hundredths: UncappedNum / UncappedDen
UncappedNum ==
    ArgBalance * PyOr(sizing.args.risk_percent, RISK_PERCENT) * PriceUnit
UncappedDen ==
    Abs(sizing.args.entry_price - sizing.args.stop_loss_price)
        * PerUnitValue(sizing.args.ticker)

NoMetadata(ticker) ==
    \/ ticker \notin (ALL_COMMODITY_TICKERS \cup ALL_STOCK_TICKERS)
    \/ /\ ticker \in ALL_COMMODITY_TICKERS
       /\ \A i \in DOMAIN COMMODITIES :
             ticker \notin {COMMODITIES[i].yf_ticker, COMMODITIES[i].yf_ticker_alt}

\* C8: every successful sizing result has lot_size <= cap, for commodities
\* and stocks, every balance, risk percent, entry and stop.
C8_LotSizeWithinCap ==
    Sized => sizing.ret[1].lot_size * CapDen <= CapNum

\* C9: for every successful sizing result, was_capped is true exactly when
\* the uncapped size risk_amount / (stop distance * per-unit value) is
\* greater than the cap.
C9_WasCappedIffOverCap ==
    Sized => (sizing.ret[1].was_capped
                <=> FracLt(CapNum, CapDen, UncappedNum, UncappedDen))

\* C10: sizing fails closed.  With a zero stop distance or a ticker without
\* instrument metadata, calculate_lot_size and calculate_trade_levels return
\* none, and check_signal and check_best_opportunity emit no signal.
C10_SizingFailsClosed ==
    /\ ( /\ sizing.call = "calculate_lot_size"
         /\ \/ sizing.args.entry_price = sizing.args.stop_loss_price
            \/ NoMetadata(sizing.args.ticker) )
       => sizing.ret = None
    /\ ( /\ sizing.call \in {"calculate_trade_levels", "check_signal",
                             "check_best_opportunity"}
         /\ \/ SL_ATR_MULTIPLIER * sizing.args.atr = 0
            \/ NoMetadata(sizing.args.ticker) )
       => sizing.ret = None

\* An MCX-only ticker with a real stop distance was handed to
\* calculate_trade_levels, which returned none
C10_Witness ==
    /\ sizing.call = "calculate_trade_levels"
    /\ sizing.args.ticker = "GOLDBEES.NS"
    /\ sizing.args.atr > 0
    /\ sizing.ret = None

\* C17: for every successful sizing result the money at risk if the stop is
\* hit, stop distance * per-unit value * returned lot size (for stocks stop
\* distance * quantity), does not exceed risk_amount = balance *
\* risk_percent / 100.
C17_RiskWithinBudget ==
    Sized => UncappedDen * sizing.ret[1].lot_size <= UncappedNum

Levelled == sizing.call = "calculate_trade_levels" /\ sizing.ret # None

\* C18: every record returned by calculate_trade_levels has a strictly
\* positive stop distance and ordered levels in the rounded values it
\* returns: BUY stop_loss < entry < tp1 < tp2, SELL stop_loss > entry > tp1
\* > tp2.
C18_LevelsOrdered ==
    Levelled =>
        LET t == sizing.ret[1]
        IN  /\ t.sl_distance > 0
            /\ t.direction = "BUY"
                 => (t.stop_loss < t.entry /\ t.entry < t.tp1 /\ t.tp1 < t.tp2)
            /\ t.direction = "SELL"
                 => (t.stop_loss > t.entry /\ t.entry > t.tp1 /\ t.tp1 > t.tp2)

\* C20: every run of track_all_signals, a run that finds no active signal
\* included, returns a summary with the counts checked, tp1_hits, tp2_hits,
\* sl_hits, expired and still_active, and checked is the sum of the other
\* five.
C20_SummaryComplete ==
    result.call = "track_all_signals" =>
        /\ {"checked", "tp1_hits", "tp2_hits", "sl_hits", "expired",
            "still_active"} \subseteq DOMAIN result
        /\ result.checked = result.tp1_hits + result.tp2_hits + result.sl_hits
                              + result.expired + result.still_active

----------------------------------------------------------------------------
(* Vocabulary of the classifier's properties, computed from the arguments *)

Scored == sizing.call = "_calculate_signal_score"

\* The sum of the component grades and the adjustments for the arguments
ArgScoreSum ==
    ScoreSum(sizing.args.direction, sizing.args.adx, sizing.args.rsi,
             sizing.args.vol_ratio, sizing.args.confirmation_trend,
             sizing.args.current, sizing.args.regime, sizing.args.session,
             sizing.args.fvg_zones, sizing.args.divergence)

Classifying == sizing.call = "check_signal"
Fallback    == sizing.call = "check_best_opportunity"

\* The snapshot check_signal reads from its frame
ArgFrame    == add_indicators(sizing.args.df)
ArgSnapshot == get_current_indicators(ArgFrame)
ArgConfirmationTrend ==
    IF sizing.args.df_confirmation = None THEN ArgSnapshot.trend
    ELSE sizing.args.df_confirmation[1].trend

HasSnapshot ==
    /\ sizing.args.df.len > 0
    /\ ArgSnapshot.ema_fast # PyNone
    /\ ArgSnapshot.rsi # PyNone
    /\ ArgSnapshot.atr # PyNone

AdxBelowFloor  == ArgSnapshot.adx.k = "num" /\ ArgSnapshot.adx.v < ADX_MIN_THRESHOLD
BodyBelowFloor == ArgSnapshot.body_ratio.k = "num"
                    /\ ArgSnapshot.body_ratio.v < CANDLE_BODY_MIN_RATIO
Volatile       == ArgSnapshot.regime = "VOLATILE"
PassesGates    == HasSnapshot /\ ~ AdxBelowFloor /\ ~ BodyBelowFloor /\ ~ Volatile

\* The rules that admit the snapshot
Admitting ==
    { i \in 1..7 : Rule(i, ArgFrame, ArgSnapshot, ArgConfirmationTrend) # NoRule }

\* The call went as far as the sizer
ReachedSizer == sizing.raised # "none" \/ sizing.ret # None

\* C11: _calculate_signal_score returns an integer in [0,10]: the sum of
\* the component grades and the regime (-1/0/+1) and session (-2/0/+1)
\* adjustments, clamped below at 0 and above at 10.
C11_ScoreIsClampedSum ==
    Scored =>
        /\ sizing.ret \in 0..10
        /\ sizing.ret = (IF ArgScoreSum < 0 THEN 0
                          ELSE IF ArgScoreSum > 10 THEN 10 ELSE ArgScoreSum)

\* A call whose components and adjustments sum to less than zero
C11_Witness == Scored /\ ArgScoreSum < 0 /\ sizing.ret = 0

\* C12: a fallback decision handed to the sizer has score <= 3, below
\* MIN_SIGNAL_SCORE; a strict decision is handed on only with score >=
\* MIN_SIGNAL_SCORE and is discarded silently below it.  A signal that is
\* returned carries that score.
C12_FallbackBelowStrict ==
    /\ (Fallback /\ ReachedSizer) =>
          /\ sizing.score[1] \in 1..3
          /\ sizing.score[1] < MIN_SIGNAL_SCORE
    /\ (Classifying /\ ReachedSizer) => sizing.score[1] >= MIN_SIGNAL_SCORE
    /\ (Classifying /\ sizing.score # None /\ sizing.score[1] < MIN_SIGNAL_SCORE)
          => (sizing.raised = "none" /\ sizing.ret = None)
    /\ ((Classifying \/ Fallback) /\ sizing.ret # None)
          => sizing.ret[1].signal_score = sizing.score[1]

\* A fallback decision with the highest score went to the sizer
C12_Witness == Fallback /\ ReachedSizer /\ sizing.score = Some(3)

C14_GatesFirst ==
    /\ (Classifying /\ HasSnapshot /\ (AdxBelowFloor \/ BodyBelowFloor \/ Volatile))
          => /\ sizing.raised = "none"
             /\ sizing.ret = None
             /\ sizing.won = NoRule
             /\ sizing.at = "filter"
    /\ (Classifying /\ PassesGates) => sizing.at # "filter"

\* An ADX one point below the floor, on a snapshot that rule 1 admits
C14_Witness ==
    /\ Classifying /\ HasSnapshot
    /\ ArgSnapshot.adx = PyNum(ADX_MIN_THRESHOLD - 1)
    /\ 1 \in Admitting
    /\ sizing.ret = None /\ sizing.raised = "none"

\* a field used for gating or admission is absent, None or NaN
MissingField ==
    \E f \in {"ema_fast", "rsi", "atr", "adx", "vol_ratio"} :
        \/ f \notin DOMAIN ArgFrame.latest
        \/ ArgFrame.latest[f].k # "num"

\* C15: if ema_fast, rsi, atr, adx or vol_ratio is missing from the
\* snapshot (absent, None or NaN), check_signal returns no signal, does not
\* go on to the sizer and does not raise.
C15_MissingFieldNoSignal ==
    (Classifying /\ sizing.args.df.len > 0 /\ MissingField) =>
        /\ sizing.raised = "none"
        /\ sizing.ret = None
        /\ sizing.at # "sizer"

\* C19: when the snapshot passes the hard gates, a rule admits it, the
\* volume floor passes, the score is >= MIN_SIGNAL_SCORE, the stop distance
\* is nonzero and the instrument is known, check_signal returns a signal
\* with the winning direction, pattern type and score and the sizer's
\* levels; it does not raise.
C19_SignalReturned ==
    ( /\ Classifying /\ sizing.at = "sizer"
      /\ ArgSnapshot.atr.k = "num" /\ ArgSnapshot.atr.v # 0
      /\ ~ NoMetadata(sizing.args.ticker) )
    => /\ sizing.raised = "none"
       /\ sizing.ret # None
       /\ sizing.ret[1].direction = sizing.won.direction
       /\ sizing.ret[1].signal_type = sizing.won.signal_type
       /\ sizing.ret[1].signal_score = sizing.score[1]
       /\ sizing.ret[1].stop_loss # sizing.ret[1].entry

\* C16: when the active file is damaged, every store operation behaves as
\* on an empty store and does not raise: the reads return no record, a
\* tracker run reports zero checked signals, archive_resolved moves
\* nothing, and log_signal starts a new store with its signal.
C16_DamagedReadsAsEmpty ==
    [][ (active_file # "ok" /\ result'.call # "none") =>
          /\ "raised" \notin DOMAIN result'
          /\ result'.call \in {"get_active_signals", "get_all_tracked"}
               => result'.ret = <<>>
          /\ result'.call = "track_all_signals" => result'.checked = 0
          /\ result'.call = "archive_resolved"
               => (result'.count = 0 /\ active' = <<>>)
          /\ result'.call = "log_signal"
               => (Len(active') = 1 /\ active'[1].signal_id = result'.id) ]_vars

----------------------------------------------------------------------------
\* this step is a call of archive_resolved that read the active file
ArchiveStep == result'.call = "archive_resolved" /\ "count" \in DOMAIN result'

\* C21: archive_resolved moves to the history only records in a terminal
\* status (TP2_HIT, SL_HIT, EXPIRED): every record that is ACTIVE or TP1_HIT
\* is still in the active store after the call, and every record the call
\* adds to the history is terminal.
C21_ArchiveOnlyTerminal ==
    [][ ArchiveStep =>
          /\ \A r \in Range(active) :
                r.status \in {"ACTIVE", "TP1_HIT"} => r \in Range(active')
          /\ \A r \in Range(history') :
                r \in Range(history) \/ r.status \in Terminal ]_vars

----------------------------------------------------------------------------
\* the fields log_signal copies from the signal, with the id and the time
IdentityFields ==
    {"signal_id", "timestamp", "ticker", "direction", "entry", "stop_loss",
     "tp1", "tp2"}

\* this step is a call of update_signal
UpdateStep == result'.call = "update_signal"

\* the record at position i of the active file is the one this step
\* addresses: polled by the run, or carrying the id given to update_signal
Addressed(i) ==
    IF UpdateStep THEN active[i].signal_id = result'.signal_id
    ELSE active[i].status = "ACTIVE" /\ fetch_ok'[active[i].ticker] = "ok"

\* C22: a tracker poll (in a run, or update_signal called with the poll's
\* updates) changes only tracking fields of the polled record: the store
\* keeps its records in place, every record keeps its keys and its id,
\* timestamp, ticker, direction, entry, stop and targets, every record that
\* is not the polled one is unchanged in every field, and the history is
\* unchanged; update_signal with an id of no record changes no record.
C22_PollChangesOnlyTracking ==
    [][ (RunStep \/ UpdateStep) =>
          /\ history' = history
          /\ Len(active') = Len(active)
          /\ \A i \in DOMAIN active :
                /\ DOMAIN active'[i] = DOMAIN active[i]
                /\ \A f \in IdentityFields : active'[i][f] = active[i][f]
                /\ ~Addressed(i) => active'[i] = active[i] ]_vars

\* update_signal was called with an id of no record while another record
\* is kept, and a run polled one of two records
C22_Witness ==
    /\ result.call = "update_signal"
    /\ Len(active) = 2
    /\ \A r \in Range(active) : r.signal_id # result.signal_id
    /\ \E r \in Range(active) : r.checks_count = 1 /\ r.status # "ACTIVE"
    /\ \E r \in Range(active) : r.checks_count = 0

----------------------------------------------------------------------------
\* the record with this id is kept with status ACTIVE
ActiveRecord(id) ==
    \E r \in Range(active) : r.signal_id = id /\ r.status = "ACTIVE"

\* the record with this id is kept, in either file, with another status
LeftActive(id) ==
    \E r \in Range(active \o history) :
        /\ r.signal_id = id
        /\ r.status \in {"TP1_HIT", "TP2_HIT", "SL_HIT", "EXPIRED"}

\* C23: if the tracker keeps being run and the bars of a signal's ticker are
\* downloaded again and again once the signal is older than the expiry
\* horizon, every logged ACTIVE signal eventually reaches TP1_HIT, TP2_HIT,
\* SL_HIT or EXPIRED: no signal stays ACTIVE forever.
C23_ActiveEventuallyLeaves ==
    \A id \in 1..MaxSignals : ActiveRecord(id) ~> LeftActive(id)

\* a signal that stayed ACTIVE through every poll up to the horizon expired
\* on a later one
C23_Witness ==
    \E r \in Range(active \o history) :
        /\ r.status = "EXPIRED"
        /\ r.checks_count > LivePolls

----------------------------------------------------------------------------
\* the volume ratio of the snapshot is a number below / at the floor
VolumeBelowFloor ==
    ArgSnapshot.vol_ratio.k = "num" /\ ArgSnapshot.vol_ratio.v < VOLUME_MIN_RATIO
VolumeAtFloor ==
    ArgSnapshot.vol_ratio.k = "num" /\ ArgSnapshot.vol_ratio.v = VOLUME_MIN_RATIO

\* C24: when the snapshot passes the gates and a rule admits it, whatever
\* the rule and the direction, a volume ratio below VOLUME_MIN_RATIO makes
\* check_signal return no signal at the volume filter, before any score is
\* computed; a volume ratio equal to VOLUME_MIN_RATIO is not stopped by the
\* filter: the call goes on to the score.
C24_VolumeFloor ==
    (Classifying /\ PassesGates /\ Admitting # {}) =>
        /\ VolumeBelowFloor =>
              /\ sizing.raised = "none" /\ sizing.ret = None
              /\ sizing.at = "volume" /\ sizing.score = None
        /\ VolumeAtFloor => sizing.at \in {"score", "sizer"} /\ sizing.score # None

\* a SELL decision of a rule was stopped by the filter
C24_Witness ==
    /\ Classifying /\ PassesGates /\ Admitting # {}
    /\ VolumeBelowFloor
    /\ sizing.won.direction = "SELL"
    /\ sizing.at = "volume"

----------------------------------------------------------------------------
\* the minimum increment of the size, in hundredths: 0.01 lot for a
\* commodity, one unit for a stock
Increment ==
    IF get_instrument_type(sizing.args.ticker) = "stock" THEN LotUnit ELSE 1

\* C25: the sizer floors the raw size to the increment: whenever the raw
\* size risk_amount / (stop distance * per-unit value) is at least one
\* increment, the returned size is a whole multiple of the increment and is
\* not greater than the raw size.
C25_FlooredToIncrement ==
    (Sized /\ UncappedNum >= Increment * UncappedDen) =>
        /\ sizing.ret[1].lot_size % Increment = 0
        /\ sizing.ret[1].lot_size * UncappedDen <= UncappedNum

----------------------------------------------------------------------------
\* a scan that returned; its strict signals, its fallback candidates and
\* the fallback signals of its result
Scanning == sizing.call = "scan_all" /\ sizing.raised = "none"
ArgStrict == Scanned(sizing.args.outcomes, "signal", 1)
ArgOpps   == Scanned(sizing.args.outcomes, "opp", 1)
ArgFresh ==
    SelectSeq(ArgOpps, LAMBDA o : \A i \in DOMAIN ArgStrict : ArgStrict[i].ticker # o.ticker)
RetFallbacks ==
    SelectSeq(sizing.ret[1], LAMBDA s : s.signal_type = "Trend Opportunity")

\* how many signals of the list have at least this score
AtLeast(list, score) ==
    Cardinality({ i \in DOMAIN list : list[i].signal_score >= score })

\* C26: with 3 or more strict signals the result of scan_all is the strict
\* signals, without any fallback signal.  With fewer than 3 the result is
\* the strict signals followed by fallback signals, at most 4 signals in
\* all; no fallback signal is for a ticker that has a strict signal; and the
\* fallback signals are the best-scored candidates: for every score, the
\* result holds as many fallback signals of at least that score as there
\* are such candidates, up to the number of fallback signals added.
C26_FillBelowThree ==
    Scanning =>
        /\ SubSeq(sizing.ret[1], 1, Len(ArgStrict)) = ArgStrict
        /\ Len(sizing.ret[1]) = Len(ArgStrict) + Len(RetFallbacks)
        /\ Len(ArgStrict) >= 3 => RetFallbacks = <<>>
        /\ Len(ArgStrict) < 3 =>
              /\ Len(sizing.ret[1]) <= 4
              /\ Len(RetFallbacks) = Min2(4 - Len(ArgStrict), Len(ArgFresh))
              /\ \A i \in DOMAIN RetFallbacks :
                    /\ RetFallbacks[i] \in Range(ArgFresh)
                    /\ \A j \in DOMAIN ArgStrict :
                          ArgStrict[j].ticker # RetFallbacks[i].ticker
              /\ \A score \in 0..MIN_SIGNAL_SCORE :
                    AtLeast(RetFallbacks, score)
                        = Min2(Len(RetFallbacks), AtLeast(ArgFresh, score))

\* one strict signal, a candidate left out for its ticker, and more
\* candidates of other tickers than there was room for, the best ones taken
C26_Witness ==
    /\ Scanning
    /\ Len(ArgStrict) = 1
    /\ Len(ArgFresh) < Len(ArgOpps)
    /\ Len(ArgFresh) > Len(RetFallbacks)
    /\ AtLeast(ArgFresh, MIN_SIGNAL_SCORE - 1) < Len(ArgFresh)
    /\ Len(sizing.ret[1]) = 4

----------------------------------------------------------------------------
\* the score from which a trade has a runner target
RunnerScore == 7

\* the decision handed to the end of check_signal passes the score
\* threshold and the sizer has levels for it
Emittable ==
    /\ sizing.call = "check_signal"
    /\ sizing.args.score >= MIN_SIGNAL_SCORE
    /\ calculate_trade_levels(sizing.args.ticker, sizing.args.entry_price,
                              sizing.args.atr, sizing.args.direction, {}) # None

\* the signal check_signal returns for the decision; where the call of the
\* sizer does not return, the signal its code builds from the sizer's levels
EmittedSignal ==
    IF sizing.ret # None THEN sizing.ret[1]
    ELSE SignalFrom(sizing.args.ticker, sizing.args.direction,
                    sizing.args.signal_type, sizing.args.score,
                    calculate_trade_levels(sizing.args.ticker,
                        sizing.args.entry_price, sizing.args.atr,
                        sizing.args.direction, {})[1])

\* C27: the third (runner) target is gated by the score: the signal emitted
\* for a decision carries a third target when its score is at or above the
\* runner threshold 7, and none when its score is below it.
C27_RunnerTargetByScore ==
    Emittable =>
        ((EmittedSignal.tp3 # None) <=> (sizing.args.score >= RunnerScore))

----------------------------------------------------------------------------
\* the records of the store that are ACTIVE for the pair of record r
ActiveOfPair(store, r) ==
    { i \in DOMAIN store :
        /\ store[i].ticker = r.ticker
        /\ store[i].direction = r.direction
        /\ store[i].status = "ACTIVE" }

\* this step is a call of log_signal that read the active file
LogStep == result'.call = "log_signal" /\ "id" \in DOMAIN result'

----------------------------------------------------------------------------
\* the hit flags of a record, as <<tp1_hit, tp2_hit, sl_hit>>
Flags(r) == <<r.tp1_hit, r.tp2_hit, r.sl_hit>>

\* C29: in every reachable state each record, in the active file or in the
\* history, has outcome fields that agree with its status: ACTIVE has no
\* flag set and no pnl_at_close; TP1_HIT has tp1_hit alone; TP2_HIT has
\* tp1_hit and tp2_hit and not sl_hit; SL_HIT has sl_hit; and pnl_at_close
\* is set exactly when the status is not ACTIVE.
C29_StatusAgreesWithOutcome ==
    \A r \in Range(active \o history) :
        /\ r.status \in {"ACTIVE", "TP1_HIT", "TP2_HIT", "SL_HIT", "EXPIRED"}
        /\ r.status = "ACTIVE"  => Flags(r) = <<FALSE, FALSE, FALSE>>
        /\ r.status = "TP1_HIT" => Flags(r) = <<TRUE, FALSE, FALSE>>
        /\ r.status = "TP2_HIT" => Flags(r) = <<TRUE, TRUE, FALSE>>
        /\ r.status = "SL_HIT"  => r.sl_hit
        /\ (r.pnl_at_close # None) <=> (r.status # "ACTIVE")

\* the store holds a record that reached the second target and one that
\* was polled and is still ACTIVE
C29_Witness ==
    /\ \E r \in Range(active \o history) : r.status = "TP2_HIT"
    /\ \E r \in Range(active \o history) :
          r.status = "ACTIVE" /\ r.checks_count > 0

----------------------------------------------------------------------------
\* C30: in every step, for every record, BUY or SELL, highest_price does
\* not decrease and lowest_price does not increase, whatever window a poll
\* reads; and in every state from the record's creation on
\* lowest_price <= entry <= highest_price.
C30_ExtremesMonotone ==
    [][ /\ \A r \in Range(active \o history) :
              \A q \in Range(active' \o history') :
                  q.signal_id = r.signal_id =>
                      /\ q.highest_price >= r.highest_price
                      /\ q.lowest_price <= r.lowest_price
        /\ \A q \in Range(active' \o history') :
              q.lowest_price <= q.entry /\ q.entry <= q.highest_price ]_vars

\* a SELL record kept the low of its first window through a second poll
\* whose window lay higher and raised its highest_price
C30_Witness ==
    \E r \in Range(active) :
        /\ r.direction = "SELL"
        /\ r.checks_count = 2
        /\ r.signal_id \in DOMAIN polled
        /\ polled[r.signal_id][1].high < r.highest_price
        /\ LastWindow(polled, r.signal_id).low > r.lowest_price
        /\ r.lowest_price < r.entry
        /\ r.entry < r.highest_price

====
